---- MODULE Spec2Model ----
(***************************************************************************)
(* A model of the DiveSMS i18n tooling: the multi-language translation     *)
(* session of translate_with_context.py over per-locale strings.xml files, *)
(* and the split metadata storage of metadata_io.py with its writers.      *)
(*                                                                         *)
(* A text is a sequence of one-character strings.  A locale file is seen   *)
(* as the parser yields it: a mapping from string name to text.            *)
(***************************************************************************)
EXTENDS Integers, Sequences, FiniteSets, TLC

\* ------------------------------------------------------------------------
\* Values
\* ------------------------------------------------------------------------

\* Python's None.
None == "None"

\* A Python dict with no keys.
EmptyDict == [k \in {} |-> None]

\* A values-<locale>/strings.xml that does not exist.
NoFile == [state |-> "none", entries |-> EmptyDict]

\* A values-<locale>/strings.xml that exists and is not well-formed XML.
Corrupt == [state |-> "corrupt", entries |-> EmptyDict]

\* A well-formed values-<locale>/strings.xml with these <string> elements.
XmlFile(entries) == [state |-> "ok", entries |-> entries]

\* The call to the translation service raised, or its answer was no JSON.
Failure == [ok |-> FALSE, translations |-> EmptyDict]

\* The call to the translation service returned this JSON object.
Json(translations) == [ok |-> TRUE, translations |-> translations]

\* Characters str.strip() removes, besides the newline the text is split on.
Whitespace == {" ", "\t", "\r"}

\* ------------------------------------------------------------------------
\* Bounds of the model
\* ------------------------------------------------------------------------

\* The documented keys, in the order of MultiLanguageTranslator.metadata:
\* one without a source text, two ordinary ones, one whose record
\* build_multilang_prompt cannot read.
DocKeys == <<"no_source", "k1", "k2", "bad_spec">>

\* The string names a locale file may hold.
FileKeys == {"k1", "k2"}

\* The values of --languages the model runs with.
TargetChoices == {<<"zh-CN">>, <<"en", "zh-CN">>}

\* The values of --string the model runs with.
SpecificChoices == {None, "k1"}

\* The texts the translation service answers with: an empty text, and a
\* text with an apostrophe and a blank line in it.
ServiceTexts == {<<>>, <<"'", "\n", "\n", "b">>}

\* How many times main() is invoked.
MaxRuns == 2

\* The texts of the locale files found on disk before the first run.
InitTexts == {<<"o">>, <<"a", "\n", "\n", "b">>}

\* The keys of metadata records, in sorted order.
KeyOrder == <<"K1", "K2">>
MetaKeys == {"K1", "K2"}

\* The names strings.xml has.
XmlKeys == {"K1", "K3"}

\* The categories shard files are named after, in sorted order.
ShardOrder == <<"a", "b", "uncategorized">>
ShardNames == {"a", "b", "uncategorized"}

\* The names strings.xml may have besides the keys of the records, and the
\* sets of names it may have when a tool reads it: none, all but one or
\* all of the other names, with any of the keys of the records.
ExtraKeys == <<"K3", "K4", "K5", "K6", "K7", "K8", "K9", "K10", "K11">>
SourceSets ==
    {some \cup {ExtraKeys[i] : i \in 1..n} :
        some \in SUBSET MetaKeys, n \in {0, Len(ExtraKeys) - 1, Len(ExtraKeys)}}

\* The keys of a record whose values are dicts; the others hold a text.
DictFields == {"technical", "translation_guidance"}

\* The keys of such a dict whose values are dicts in turn.
NestedFields == {"terminology"}

\* ------------------------------------------------------------------------
\* translate_with_context.py: pure functions
\* ------------------------------------------------------------------------

\* LOCALE_MAPPING.get(api_locale, api_locale)
LOCALE_MAPPING(api_locale) ==
    CASE api_locale = "zh-CN" -> "zh-rCN"
      [] api_locale = "zh-TW" -> "zh-rTW"
      [] api_locale = "pt-BR" -> "pt-rBR"
      [] OTHER -> api_locale

\* str.replace(c, rep) for a one-character c.
RECURSIVE ReplaceChar(_, _, _)
ReplaceChar(text, c, rep) ==
    IF text = <<>> THEN <<>>
    ELSE (IF Head(text) = c THEN rep ELSE <<Head(text)>>)
         \o ReplaceChar(Tail(text), c, rep)

escape_android_string(text) ==
    IF text = <<>> THEN text
    ELSE LET t1 == ReplaceChar(text, "\\", <<"\\", "\\">>)
             t2 == ReplaceChar(t1, "'", <<"\\", "'">>)
             t3 == ReplaceChar(t2, "\"", <<"\\", "\"">>)
         IN  IF Head(t3) \in {"@", "?"} THEN <<"\\">> \o t3 ELSE t3

\* str.split('\n')
RECURSIVE SplitLines(_)
SplitLines(text) ==
    IF \A i \in 1..Len(text) : text[i] # "\n" THEN <<text>>
    ELSE LET i == CHOOSE n \in 1..Len(text) :
                      /\ text[n] = "\n"
                      /\ \A j \in 1..(n - 1) : text[j] # "\n"
         IN  <<SubSeq(text, 1, i - 1)>> \o SplitLines(SubSeq(text, i + 1, Len(text)))

\* '\n'.join(lines)
RECURSIVE JoinLines(_)
JoinLines(lines) ==
    IF Len(lines) = 0 THEN <<>>
    ELSE IF Len(lines) = 1 THEN lines[1]
    ELSE lines[1] \o <<"\n">> \o JoinLines(Tail(lines))

\* line.strip() is empty
IsBlankLine(line) == \A i \in 1..Len(line) : line[i] \in Whitespace

\* What the pretty-printed file holds for a <string> whose text is `text`:
\* the first line of the text shares a line with the opening tag and the
\* last one with the closing tag, the lines between stand alone and
\* `[line for line in lines if line.strip()]` drops the blank ones.
WrittenText(text) ==
    LET segs == SplitLines(text)
        n == Len(segs)
    IN  IF n <= 2 THEN text
        ELSE JoinLines(<<segs[1]>>
                       \o SelectSeq(SubSeq(segs, 2, n - 1), LAMBDA s : ~IsBlankLine(s))
                       \o <<segs[n]>>)


\* ------------------------------------------------------------------------
\* State
\* ------------------------------------------------------------------------

VARIABLES
    files,              \* android locale -> NoFile, Corrupt, or name -> entry
    strings,            \* MultiLanguageTranslator.strings: name -> source text
    metadata,           \* MultiLanguageTranslator.metadata: name -> record
    pc,                 \* where the invocation of main() stands
    cfg,                \* the parsed command line of the invocation
    complete_strings,   \* translate_all: complete_strings
    incomplete_strings, \* translate_all: incomplete_strings
    keys_to_translate,  \* translate_all: keys_to_translate
    idx,                \* translate_all: position in keys_to_translate
    all_translations,   \* translate_all: all_translations
    failed_keys,        \* translate_all: failed_keys
    pending,            \* save_translations: locales of by_locale not yet saved
    saved_locales,      \* save_translations: saved_locales
    dispatch_log,       \* the keys sent to the translation service in this run
    answers,            \* what the service answered in this run, by key
    rerun,              \* how the run before this one ended
    runs                \* the invocations of main() so far

sessionVars == <<files, strings, metadata, pc, cfg, complete_strings,
                 incomplete_strings, keys_to_translate, idx, all_translations,
                 failed_keys, pending, saved_locales, dispatch_log, answers,
                 rerun, runs>>

\* The metadata storage and a MetadataManager.
\*   index     index.json: the categories in the order of the JSON object,
\*             each with its list of keys, and the two counts
\*   shards    <category>.yaml for every category: whether the file exists
\*             and the records it holds
\*   defaults  the "defaults" object of defaults.json
\*   manager   a MetadataManager: whether one is alive, the keys of
\*             self.metadata in insertion order, self.metadata, and
\*             file_data['total_strings']
VARIABLES index, shards, defaults, manager

\* A MetadataIO instance in the hands of a caller: its caches, the result of
\* the last call, and a record of a result the caller keeps.
VARIABLES io, returned, held

readVars == <<io, returned, held>>

\* The legacy storage, string_metadata.json: whether the file exists, the
\* keys of its "strings" object in the order of the file, the object, and
\* its total_strings.
VARIABLES legacy

repoVars == <<index, shards, defaults, manager, readVars, legacy>>

vars == <<sessionVars, repoVars>>

\* The android locales of the model.
AndroidLocales ==
    UNION {{LOCALE_MAPPING(t[i]) : i \in 1..Len(t)} : t \in TargetChoices}

\* The set of the elements of a sequence.
Range(seq) == {seq[i] : i \in 1..Len(seq)}

\* The entry of a locale file: its text, and how many times the text went
\* through escape_android_string.
Entry(text, esc) == [text |-> text, esc |-> esc]

\* dict.update
Update(old, new) ==
    [k \in DOMAIN old \cup DOMAIN new |-> IF k \in DOMAIN new THEN new[k] ELSE old[k]]

\* A metadata record, as far as the session reads it.
GoodRecord ==
    [technical |-> [format_specifiers |-> FALSE, specifier_info |-> <<>>]]

\* A record whose specifier_info entry has no 'placeholder'.
BadRecord ==
    [technical |-> [format_specifiers |-> TRUE,
                    specifier_info |-> <<[position |-> "1"]>>]]


\* ------------------------------------------------------------------------
\* translate_with_context.py: MultiLanguageTranslator
\* ------------------------------------------------------------------------

\* ET.parse of a locale file and the loop over root.findall('.//string'):
\* name -> (elem.text or ''); a missing or unparseable file yields nothing.
ParsedFile(file) == IF file.state = "ok" THEN file.entries ELSE EmptyDict

\* load_existing_translations: translations_by_string, the names with a
\* non-empty text in some target locale, each with those locales.
translations_by_string(fs, target_languages) ==
    LET has(name, api) ==
            LET f == ParsedFile(fs[LOCALE_MAPPING(api)])
            IN  name \in DOMAIN f /\ f[name].text # <<>>
        names == {name \in FileKeys : \E api \in Range(target_languages) : has(name, api)}
    IN  [name \in names |->
            [api \in {a \in Range(target_languages) : has(name, a)} |->
                ParsedFile(fs[LOCALE_MAPPING(api)])[name].text]]

\* CompleteStrings with a key complete only when every locale file the
\* model has holds a text for it, target or not.
CompleteStrings_EveryLocale(fs, target_languages, md) ==
    {k \in DOMAIN md :
        \A a \in AndroidLocales :
            k \in DOMAIN ParsedFile(fs[a]) /\ ParsedFile(fs[a])[k].text # <<>>}

\* CompleteStrings with a key complete as soon as one target locale holds a
\* text for it.
CompleteStrings_AnyLocale(fs, target_languages, md) ==
    {k \in DOMAIN md : k \in DOMAIN translations_by_string(fs, target_languages)}

\* load_existing_translations: complete_strings
CompleteStrings(fs, target_languages, md) ==
    LET tbs == translations_by_string(fs, target_languages)
    IN  {k \in DOMAIN md : k \in DOMAIN tbs /\ Range(target_languages) \subseteq DOMAIN tbs[k]}

\* load_existing_translations: incomplete_strings
IncompleteStrings(fs, target_languages, md) ==
    LET tbs == translations_by_string(fs, target_languages)
    IN  {k \in DOMAIN md : k \in DOMAIN tbs /\ ~(Range(target_languages) \subseteq DOMAIN tbs[k])}

\* build_multilang_prompt raises when technical.format_specifiers is set and
\* an entry of specifier_info lacks 'placeholder' or 'position'.
PromptBuilds(record) ==
    record.technical.format_specifiers =>
        \A i \in 1..Len(record.technical.specifier_info) :
            {"placeholder", "position"} \subseteq DOMAIN record.technical.specifier_info[i]

\* What the translation service may answer for the target languages: a JSON
\* object with a text for some of them, or an error.
Responses(target_languages) ==
    {Failure} \cup
    {Json(t) : t \in UNION {[ls -> ServiceTexts] : ls \in SUBSET Range(target_languages)}}

\* An answer is full when every target language has a non-empty text in it.
IsFull(resp, target_languages) ==
    /\ resp.ok
    /\ DOMAIN resp.translations = Range(target_languages)
    /\ \A l \in DOMAIN resp.translations : resp.translations[l] # <<>>

\* translate_with_openai_structured with an answer that lacks a target
\* language treated as an error.
translate_with_openai_structured_AllOrNothing(resp) ==
    IF resp.ok /\ DOMAIN resp.translations = Range(cfg.target_languages)
    THEN resp.translations
    ELSE EmptyDict

\* translate_with_openai_structured once the service has answered: the JSON
\* object, also when target languages are missing in it, and {} after an
\* exception.
translate_with_openai_structured(resp) ==
    IF resp.ok THEN resp.translations ELSE EmptyDict

\* translate_string without the return of the dry run.
BeforeDispatch_NoDryRun(key) ==
    IF key \notin DOMAIN metadata THEN "skip"
    ELSE IF (IF key \in DOMAIN strings THEN strings[key] ELSE <<>>) = <<>> THEN "skip"
    ELSE IF ~PromptBuilds(metadata[key]) THEN "skip"
    ELSE "call"

\* translate_string up to the call of the service: "skip" when the key has
\* no metadata, no source text or no prompt, "dry" in a dry run, else "call".
BeforeDispatch(key) ==
    IF key \notin DOMAIN metadata THEN "skip"
    ELSE IF (IF key \in DOMAIN strings THEN strings[key] ELSE <<>>) = <<>> THEN "skip"
    ELSE IF ~PromptBuilds(metadata[key]) THEN "skip"
    ELSE IF cfg.dry_run THEN "dry"
    ELSE "call"

\* Recorded with a falsy result left out of failed_keys.
Recorded_FailureDropped(key, translations) ==
    /\ all_translations' =
           IF translations # EmptyDict
           THEN Update(all_translations, [k \in {key} |-> translations])
           ELSE all_translations
    /\ UNCHANGED failed_keys

\* translate_all: a result of translate_string is recorded in
\* all_translations when it is truthy and the key in failed_keys otherwise.
\* Recorded as it would be if a key with a result also went on the
\* failure list.
Recorded_BothLists(key, translations) ==
    /\ failed_keys' = Append(failed_keys, key)
    /\ IF translations # EmptyDict
       THEN all_translations' = Update(all_translations, [k \in {key} |-> translations])
       ELSE UNCHANGED all_translations

Recorded(key, translations) ==
    IF translations # EmptyDict
    THEN /\ all_translations' = Update(all_translations, [k \in {key} |-> translations])
         /\ UNCHANGED failed_keys
    ELSE /\ failed_keys' = Append(failed_keys, key)
         /\ UNCHANGED all_translations

\* The keys of all_translations in insertion order.
TranslatedOrder == SelectSeq(keys_to_translate, LAMBDA k : k \in DOMAIN all_translations)

\* save_translations: by_locale, the translations regrouped by android
\* locale (LOCALE_MAPPING is injective on the locales of the model).
by_locale(at) ==
    LET locs == {LOCALE_MAPPING(l) : l \in UNION {DOMAIN at[k] : k \in DOMAIN at}}
        has(k, a) == \E l \in DOMAIN at[k] : LOCALE_MAPPING(l) = a
    IN  [a \in locs |->
            [k \in {k \in DOMAIN at : has(k, a)} |->
                at[k][CHOOSE l \in DOMAIN at[k] : LOCALE_MAPPING(l) = a]]]

\* The order in which by_locale gains its locales: the keys in insertion
\* order, the locales of an answer in the order of target_languages.
RECURSIVE LocaleOrder(_, _, _)
LocaleOrder(keys, at, target_languages) ==
    IF keys = <<>> THEN <<>>
    ELSE LET rest == LocaleOrder(Tail(keys), at, target_languages)
             mine == SelectSeq(target_languages, LAMBDA l : l \in DOMAIN at[Head(keys)])
             here == [i \in 1..Len(mine) |-> LOCALE_MAPPING(mine[i])]
         IN  here \o SelectSeq(rest, LAMBDA a : a \notin Range(here))

\* save_translations: the new translations, escaped before the merge.
escaped_translations(translations) ==
    [k \in DOMAIN translations |-> Entry(escape_android_string(translations[k]), 1)]

\* MergedFile with the entries read from the file escaped as well.
MergedFile_EscapeAgain(file, translations) ==
    Update([k \in DOMAIN ParsedFile(file) |->
                Entry(escape_android_string(ParsedFile(file)[k].text),
                      ParsedFile(file)[k].esc + 1)],
           escaped_translations(translations))

\* save_translations: existing.update(escaped_translations)
MergedFile(file, translations) ==
    Update(ParsedFile(file), escaped_translations(translations))

\* save_translations: the file as written from the merged dict.
WrittenFile(existing) ==
    XmlFile([k \in DOMAIN existing |-> [existing[k] EXCEPT !.text = WrittenText(@)]])


\* ------------------------------------------------------------------------
\* Initial state
\* ------------------------------------------------------------------------

\* The command lines of the model.
Configs ==
    [target_languages : TargetChoices, specific_key : SpecificChoices,
     save_output : BOOLEAN, dry_run : BOOLEAN, force : BOOLEAN]

\* The texts a name may have in a locale file found on disk before the
\* first run: the second ordinary key has no translation yet.
InitTextsOf(name) == IF name = "k1" THEN InitTexts ELSE {}

\* The locale files found on disk before the first run: none, or one that
\* holds some names, each with a text escaped once.
InitFiles ==
    {NoFile} \cup
    {XmlFile(e) : e \in UNION {{f \in [names -> {Entry(t, 1) : t \in InitTexts}] :
                                   \A n \in names : f[n].text \in InitTextsOf(n)} :
                               names \in SUBSET FileKeys}}

\* The source strings load_data() reads from values/strings.xml.
SourceStrings == [k \in Range(DocKeys) \ {"no_source"} |-> <<"s">>]

\* The metadata load_data() reads.
SourceMetadata ==
    [k \in Range(DocKeys) |-> IF k = "bad_spec" THEN BadRecord ELSE GoodRecord]

\* The command line before any invocation.
NoConfig ==
    [target_languages |-> <<>>, specific_key |-> None,
     save_output |-> FALSE, dry_run |-> FALSE, force |-> FALSE]

SessionInit ==
    /\ files \in [AndroidLocales -> InitFiles]
    /\ strings = SourceStrings
    /\ metadata = SourceMetadata
    /\ pc = "idle"
    /\ cfg = NoConfig
    /\ runs = 0
    /\ complete_strings = {}
    /\ incomplete_strings = {}
    /\ keys_to_translate = <<>>
    /\ idx = 1
    /\ all_translations = EmptyDict
    /\ failed_keys = <<>>
    /\ pending = <<>>
    /\ saved_locales = {}
    /\ dispatch_log = <<>>
    /\ answers = EmptyDict
    /\ rerun = [after |-> "nothing", clean |-> FALSE]

\* ------------------------------------------------------------------------
\* translate_with_context.py: main() and the steps of a run
\* ------------------------------------------------------------------------

\* A process of main() begins: nothing of an earlier process is in memory.
Begin(c) ==
    /\ runs < MaxRuns
    /\ runs' = runs + 1
    /\ pc' = "init"
    /\ cfg' = c
    /\ rerun' = [after |-> pc,
                 clean |-> pc = "done" /\
                           \A k \in DOMAIN answers : IsFull(answers[k], cfg.target_languages)]
    /\ complete_strings' = {}
    /\ incomplete_strings' = {}
    /\ keys_to_translate' = <<>>
    /\ idx' = 1
    /\ all_translations' = EmptyDict
    /\ failed_keys' = <<>>
    /\ pending' = <<>>
    /\ saved_locales' = {}
    /\ dispatch_log' = <<>>
    /\ answers' = EmptyDict
    /\ UNCHANGED <<repoVars, files, strings, metadata>>

\* main(): the first invocation, with any command line of the model.
Start(c) ==
    /\ pc = "idle"
    /\ Begin(c)

\* main(): the same command line is run again after the run before it ended.
Restart ==
    /\ pc \in {"done", "interrupted"}
    /\ Begin(cfg)

\* translate_all with a specific key: the key is translated, whatever exists.
\* SpecificKey as it would be if a targeted key went through the resume
\* rule: a key complete in every target locale is left out.
SpecificKey_Resuming ==
    /\ pc = "init"
    /\ cfg.specific_key # None
    /\ keys_to_translate' =
           IF cfg.specific_key \in CompleteStrings(files, cfg.target_languages, metadata)
           THEN <<>> ELSE <<cfg.specific_key>>
    /\ pc' = "translate"
    /\ UNCHANGED <<repoVars, files, strings, metadata, cfg, complete_strings, incomplete_strings,
                   idx, all_translations, failed_keys, pending, saved_locales,
                   dispatch_log, answers, rerun, runs>>

SpecificKey ==
    /\ pc = "init"
    /\ cfg.specific_key # None
    /\ keys_to_translate' = <<cfg.specific_key>>
    /\ pc' = "translate"
    /\ UNCHANGED <<repoVars, files, strings, metadata, cfg, complete_strings, incomplete_strings,
                   idx, all_translations, failed_keys, pending, saved_locales,
                   dispatch_log, answers, rerun, runs>>

\* translate_all, resume mode: load_existing_translations, then the keys
\* that are not complete.
ResumeScan ==
    /\ pc = "init"
    /\ cfg.specific_key = None
    /\ ~cfg.force /\ ~cfg.dry_run
    /\ complete_strings' = CompleteStrings(files, cfg.target_languages, metadata)
    /\ incomplete_strings' = IncompleteStrings(files, cfg.target_languages, metadata)
    /\ keys_to_translate' = SelectSeq(DocKeys, LAMBDA k : k \notin complete_strings')
    /\ pc' = "translate"
    /\ UNCHANGED <<repoVars, files, strings, metadata, cfg, idx, all_translations, failed_keys,
                   pending, saved_locales, dispatch_log, answers, rerun, runs>>

\* A force mode that loads the existing translations all the same.
NoScan_Scanning ==
    /\ pc = "init"
    /\ cfg.specific_key = None
    /\ cfg.force \/ cfg.dry_run
    /\ complete_strings' = CompleteStrings(files, cfg.target_languages, metadata)
    /\ incomplete_strings' = IncompleteStrings(files, cfg.target_languages, metadata)
    /\ keys_to_translate' = SelectSeq(DocKeys, LAMBDA k : k \notin complete_strings)
    /\ pc' = "translate"
    /\ UNCHANGED <<repoVars, files, strings, metadata, cfg, idx, all_translations, failed_keys,
                   pending, saved_locales, dispatch_log, answers, rerun, runs>>

\* translate_all, force mode or dry run: no scan; every documented key.
NoScan ==
    /\ pc = "init"
    /\ cfg.specific_key = None
    /\ cfg.force \/ cfg.dry_run
    /\ keys_to_translate' = SelectSeq(DocKeys, LAMBDA k : k \notin complete_strings)
    /\ pc' = "translate"
    /\ UNCHANGED <<repoVars, files, strings, metadata, cfg, complete_strings, incomplete_strings,
                   idx, all_translations, failed_keys, pending, saved_locales,
                   dispatch_log, answers, rerun, runs>>

\* One call of the service for every target language.
service_calls_PerLocale(key, target_languages) ==
    [i \in 1..Len(target_languages) |-> key]

\* translate_string: one call of translate_with_openai_structured, with the
\* one prompt build_multilang_prompt makes for all target languages.
service_calls(key, target_languages) == <<key>>

\* translate_string for the next key, up to the call of the service.
TranslateString ==
    /\ pc = "translate"
    /\ idx <= Len(keys_to_translate)
    /\ LET key == keys_to_translate[idx]
           how == BeforeDispatch(key)
       IN  \/ /\ how = "skip"
              /\ Recorded(key, EmptyDict)
              /\ idx' = idx + 1
              /\ UNCHANGED <<pc, dispatch_log>>
           \/ /\ how = "dry"
              /\ Recorded(key, [l \in Range(cfg.target_languages) |-> strings[key]])
              /\ idx' = idx + 1
              /\ UNCHANGED <<pc, dispatch_log>>
           \/ /\ how = "call"
              /\ dispatch_log' = dispatch_log \o service_calls(key, cfg.target_languages)
              /\ pc' = "dispatch"
              /\ UNCHANGED <<idx, all_translations, failed_keys>>
    /\ UNCHANGED <<repoVars, files, strings, metadata, cfg, complete_strings, incomplete_strings,
                   keys_to_translate, pending, saved_locales, answers, rerun, runs>>

\* The service answers: translate_string returns what
\* translate_with_openai_structured returns; translate_all records it and
\* goes on to the next key.
Answer(resp) ==
    /\ pc = "dispatch"
    /\ Recorded(keys_to_translate[idx], translate_with_openai_structured(resp))
    /\ answers' = Update(answers, [k \in {keys_to_translate[idx]} |-> resp])
    /\ idx' = idx + 1
    /\ pc' = "translate"
    /\ UNCHANGED <<repoVars, files, strings, metadata, cfg, complete_strings, incomplete_strings,
                   keys_to_translate, pending, saved_locales, dispatch_log, rerun, runs>>

\* translate_all returns; main() saves when asked to and there is something
\* to save.
EndTranslate ==
    /\ pc = "translate"
    /\ idx > Len(keys_to_translate)
    /\ IF ~cfg.dry_run /\ cfg.save_output /\ all_translations # EmptyDict
       THEN /\ pc' = "save"
            /\ pending' = LocaleOrder(TranslatedOrder, all_translations, cfg.target_languages)
       ELSE /\ pc' = "done"
            /\ UNCHANGED pending
    /\ UNCHANGED <<repoVars, files, strings, metadata, cfg, complete_strings, incomplete_strings,
                   keys_to_translate, idx, all_translations, failed_keys, saved_locales,
                   dispatch_log, answers, rerun, runs>>

\* save_translations, one locale: the existing file is loaded, the new
\* translations are escaped and merged over it, the file is written.
SaveLocale ==
    /\ pc = "save"
    /\ pending # <<>>
    /\ LET android_locale == Head(pending)
           translations == by_locale(all_translations)[android_locale]
       IN  /\ files' = [files EXCEPT ![android_locale] =
                            WrittenFile(MergedFile(files[android_locale], translations))]
           /\ saved_locales' = saved_locales \cup {android_locale}
    /\ pending' = Tail(pending)
    /\ UNCHANGED <<repoVars, strings, metadata, pc, cfg, complete_strings, incomplete_strings,
                   keys_to_translate, idx, all_translations, failed_keys, dispatch_log,
                   answers, rerun, runs>>

\* save_translations returns and main() ends.
EndSave ==
    /\ pc = "save"
    /\ pending = <<>>
    /\ pc' = "done"
    /\ UNCHANGED <<repoVars, files, strings, metadata, cfg, complete_strings, incomplete_strings,
                   keys_to_translate, idx, all_translations, failed_keys, pending,
                   saved_locales, dispatch_log, answers, rerun, runs>>

\* sys.exit(1): the process ends and what it held in memory is gone.
Exit ==
    /\ pc' = "interrupted"
    /\ complete_strings' = {}
    /\ incomplete_strings' = {}
    /\ keys_to_translate' = <<>>
    /\ idx' = 1
    /\ all_translations' = EmptyDict
    /\ failed_keys' = <<>>
    /\ pending' = <<>>
    /\ saved_locales' = {}
    /\ UNCHANGED <<repoVars, strings, metadata, cfg, dispatch_log, answers, rerun, runs>>

\* KeyboardInterrupt outside a file write: no handler of translate_all or
\* save_translations catches it (they catch Exception); main() logs and
\* exits.
KeyboardInterrupt ==
    /\ pc \in {"init", "translate", "dispatch", "save"}
    /\ Exit
    /\ UNCHANGED files

\* KeyboardInterrupt inside `with open(output_file, 'w')`: open() has
\* truncated the file, which holds a part of the new document.
InterruptedWrite ==
    /\ pc = "save"
    /\ pending # <<>>
    /\ files' = [files EXCEPT ![Head(pending)] = Corrupt]
    /\ Exit

SessionNext ==
    \/ \E c \in Configs : Start(c)
    \/ Restart
    \/ SpecificKey
    \/ ResumeScan
    \/ NoScan
    \/ TranslateString
    \/ \E resp \in Responses(cfg.target_languages) : Answer(resp)
    \/ EndTranslate
    \/ SaveLocale
    \/ EndSave
    \/ KeyboardInterrupt
    \/ InterruptedWrite


\* ------------------------------------------------------------------------
\* metadata_io.py: MetadataIO
\* ------------------------------------------------------------------------

\* dict.get(key, default)
Get(dict, key, default) == IF key \in DOMAIN dict THEN dict[key] ELSE default

\* sorted(keys), as a list
SortedKeys(keys) == SelectSeq(KeyOrder, LAMBDA k : k \in keys)

\* A category of index['categories'].
Category(name, keys) == [name |-> name, keys |-> keys]

\* list(index.get('categories', {}).keys())
get_categories(ix) == [i \in 1..Len(ix.categories) |-> ix.categories[i].name]

\* get_all_string_keys: the keys of all the key lists of the index.
get_all_string_keys(ix) ==
    UNION {Range(ix.categories[i].keys) : i \in 1..Len(ix.categories)}

\* A shard file that does not exist, and one that holds the records.
\* No string_metadata.json, and one with these records.
NoLegacy == [exists |-> FALSE, keys |-> <<>>, strings |-> EmptyDict, total_strings |-> 0]
Legacy(keys, strings_dict, total_strings) ==
    [exists |-> TRUE, keys |-> keys, strings |-> strings_dict, total_strings |-> total_strings]

NoShard == [exists |-> FALSE, data |-> EmptyDict]
Shard(data) == [exists |-> TRUE, data |-> data]

\* A merge that goes on into the dicts inside a dict of the defaults.
merge_with_defaults_Deep(record, dflt) ==
    LET merged(default_value, value) ==
            [k \in DOMAIN default_value \cup DOMAIN value |->
                IF k \in DOMAIN value
                THEN IF k \in NestedFields /\ k \in DOMAIN default_value
                     THEN Update(default_value[k], value[k])
                     ELSE value[k]
                ELSE default_value[k]]
    IN  [key \in DOMAIN dflt \cup DOMAIN record |->
            IF key \in DOMAIN dflt
            THEN IF key \in DictFields
                 THEN merged(dflt[key], Get(record, key, EmptyDict))
                 ELSE Get(record, key, dflt[key])
            ELSE record[key]]

\* _merge_with_defaults: a dict of the defaults is merged one level deep
\* with the dict of the record, any other default gives way to the value
\* of the record, and the keys the defaults lack are added as they are.
merge_with_defaults(record, dflt) ==
    [key \in DOMAIN dflt \cup DOMAIN record |->
        IF key \in DOMAIN dflt
        THEN IF key \in DictFields
             THEN Update(dflt[key], Get(record, key, EmptyDict))
             ELSE Get(record, key, dflt[key])
        ELSE record[key]]

\* The results of a read: a record, None, or FileNotFoundError.
ReturnRecord(record) == [outcome |-> "record", record |-> record]
ReturnNone == [outcome |-> "None", record |-> EmptyDict]
RaiseFileNotFound == [outcome |-> "FileNotFoundError", record |-> EmptyDict]

\* The first category of the index that lists the key, None when no
\* category does.
category_for(string_key, ix) ==
    LET listed == {i \in 1..Len(ix.categories) : string_key \in Range(ix.categories[i].keys)}
    IN  IF listed = {} THEN None
        ELSE ix.categories[CHOOSE i \in listed : \A j \in listed : i <= j].name

\* A get_string_metadata that takes a missing category file for a file
\* without the key.
get_string_metadata_MissingIsNone(string_key, ix, sh, dflt) ==
    LET category == category_for(string_key, ix)
    IN  IF category = None THEN ReturnNone
        ELSE IF string_key \notin DOMAIN sh[category].data THEN ReturnNone
        ELSE ReturnRecord(merge_with_defaults(sh[category].data[string_key], dflt))

\* get_string_metadata: the first category of the index that lists the key,
\* the record the shard of that category has for the key, merged.
get_string_metadata(string_key, ix, sh, dflt) ==
    LET listed == {i \in 1..Len(ix.categories) : string_key \in Range(ix.categories[i].keys)}
    IN  IF listed = {} THEN ReturnNone
        ELSE LET first == CHOOSE i \in listed : \A j \in listed : i <= j
                 category == ix.categories[first].name
             IN  IF ~sh[category].exists THEN RaiseFileNotFound
                 ELSE IF string_key \notin DOMAIN sh[category].data THEN ReturnNone
                 ELSE ReturnRecord(merge_with_defaults(sh[category].data[string_key], dflt))

\* get_category_metadata: every record of the shard, merged.
get_category_metadata(category, sh, dflt) ==
    [string_key \in DOMAIN sh[category].data |->
        merge_with_defaults(sh[category].data[string_key], dflt)]

\* get_all_metadata: all_metadata.update(category_metadata) for the
\* categories of the index in their order, so that of two shards with the
\* same key the later one gives the record; FileNotFoundError when a shard
\* is missing.
get_all_metadata(ix, sh, dflt) ==
    LET names == get_categories(ix)
        holders(k) == {i \in 1..Len(names) : k \in DOMAIN sh[names[i]].data}
        last(k) == CHOOSE i \in holders(k) : \A j \in holders(k) : j <= i
    IN  IF \E i \in 1..Len(names) : ~sh[names[i]].exists THEN RaiseFileNotFound
        ELSE ReturnRecord([k \in {k \in MetaKeys : holders(k) # {}} |->
                              get_category_metadata(names[last(k)], sh, dflt)[k]])

\* The insertion order of the keys of all_metadata: the categories in the
\* order of the index, the keys of a shard in the order of the file, a key
\* met again keeps its place.
RECURSIVE AllMetadataOrder(_, _)
AllMetadataOrder(names, sh) ==
    IF names = <<>> THEN <<>>
    ELSE LET front == AllMetadataOrder(SubSeq(names, 1, Len(names) - 1), sh)
             here == SortedKeys(DOMAIN sh[names[Len(names)]].data)
         IN  front \o SelectSeq(here, LAMBDA k : k \notin Range(front))


\* ------------------------------------------------------------------------
\* manage_string_metadata.py: StringMetadata, MetadataManager
\* ------------------------------------------------------------------------

\* StringMetadata.__init__ and to_dict: a record with every field, a field
\* the data lacks being '' or {}. (ui, context, constraints,
\* translation_guidance and references are dicts as technical is.)
StringMetadata(data) ==
    [category |-> Get(data, "category", ""),
     purpose |-> Get(data, "purpose", ""),
     technical |-> Get(data, "technical", EmptyDict)]

\* No MetadataManager is alive.
NoManager == [alive |-> FALSE, keys |-> <<>>, metadata |-> EmptyDict, total_strings |-> 0]

\* MetadataManager.load: the records of get_all_metadata, and the empty
\* working set of the legacy branch when get_all_metadata raises (there is
\* no strings_metadata.json).
load(ix, sh, dflt) ==
    LET strings_data == get_all_metadata(ix, sh, dflt)
    IN  IF strings_data.outcome = "record"
        THEN [alive |-> TRUE,
              keys |-> AllMetadataOrder(get_categories(ix), sh),
              metadata |-> [key \in DOMAIN strings_data.record |->
                               StringMetadata(strings_data.record[key])],
              total_strings |-> 0]
        ELSE [alive |-> TRUE, keys |-> <<>>, metadata |-> EmptyDict, total_strings |-> 0]

\* save: meta.category or 'uncategorized'
category_of(meta) == IF meta.category = "" THEN "uncategorized" ELSE meta.category

\* save: by_category, as the list of its categories in insertion order
RECURSIVE by_category_order(_, _)
by_category_order(keys, md) ==
    IF keys = <<>> THEN <<>>
    ELSE LET front == by_category_order(SubSeq(keys, 1, Len(keys) - 1), md)
             category == category_of(md[keys[Len(keys)]])
         IN  IF category \in Range(front) THEN front ELSE Append(front, category)

\* by_category without the 'uncategorized' of a record that has no
\* category.
by_category_CategoryOnly(category, md) ==
    [key \in {k \in DOMAIN md : md[k].category = category} |-> md[key]]

\* save: by_category[category], the records of the working set with that
\* category
by_category(category, md) ==
    [key \in {k \in DOMAIN md : category_of(md[k]) = category} |-> md[key]]

\* MetadataManager(metadata_file, strings_file)
MetadataManager_init ==
    /\ ~manager.alive
    /\ manager' = load(index, shards, defaults)
    /\ UNCHANGED <<index, shards, defaults, sessionVars, readVars, legacy>>

\* An add_metadata that also writes the shard of the category of the record.
add_metadata_WriteThrough(key, data) ==
    LET written == [manager EXCEPT
                       !.keys = IF key \in DOMAIN manager.metadata THEN @ ELSE Append(@, key),
                       !.metadata = Update(@, [k \in {key} |-> StringMetadata(data)])]
    IN  /\ manager.alive
        /\ manager' = written
        /\ shards' = [c \in ShardNames |->
                         IF c = category_of(StringMetadata(data))
                         THEN Shard(by_category(c, written.metadata))
                         ELSE shards[c]]
        /\ UNCHANGED <<index, defaults, sessionVars, readVars, legacy>>

\* add_metadata(key, data)
add_metadata(key, data) ==
    /\ manager.alive
    /\ manager' = [manager EXCEPT
                      !.keys = IF key \in DOMAIN manager.metadata THEN @ ELSE Append(@, key),
                      !.metadata = Update(@, [k \in {key} |-> StringMetadata(data)])]
    /\ UNCHANGED <<index, shards, defaults, sessionVars, readVars, legacy>>

\* remove_metadata(key)
remove_metadata(key) ==
    /\ manager.alive
    /\ manager' = [manager EXCEPT
                      !.keys = SelectSeq(@, LAMBDA k : k # key),
                      !.metadata = [k \in DOMAIN @ \ {key} |-> @[k]]]
    /\ UNCHANGED <<index, shards, defaults, sessionVars, readVars, legacy>>

\* validate_consistency: file_data['total_strings'] = len(xml_keys)
validate_consistency ==
    /\ manager.alive
    /\ manager' = [manager EXCEPT !.total_strings = Cardinality(XmlKeys)]
    /\ UNCHANGED <<index, shards, defaults, sessionVars, readVars, legacy>>

\* save: the shards after save_category for every category of by_category;
\* the shard of a category the working set does not have is left as it is.
saved_shards(sh, mgr) ==
    [c \in ShardNames |->
        IF c \in Range(by_category_order(mgr.keys, mgr.metadata))
        THEN Shard(by_category(c, mgr.metadata))
        ELSE sh[c]]

\* save: index_data, with the categories of by_category, their sorted
\* keys, and the counts.
saved_index(mgr) ==
    LET order == by_category_order(mgr.keys, mgr.metadata)
    IN  [categories |->
            [i \in 1..Len(order) |->
                Category(order[i], SortedKeys(DOMAIN by_category(order[i], mgr.metadata)))],
         documented_strings |-> Len(mgr.keys),
         total_strings |-> mgr.total_strings]

\* save: the shard of every category of the working set is rewritten, the
\* other shard files are left as they are, and the index gets the
\* categories of the working set with their sorted keys and the counts.
save ==
    /\ manager.alive
    /\ shards' = saved_shards(shards, manager)
    /\ index' = saved_index(manager)
    /\ UNCHANGED <<defaults, manager, sessionVars, readVars, legacy>>

\* The process that holds the MetadataManager ends.
ManagerExit ==
    /\ manager.alive
    /\ manager' = NoManager
    /\ UNCHANGED <<index, shards, defaults, sessionVars, readVars, legacy>>

\* save, ended after save_category has been done for the first n categories
\* of by_category and before save_index has written: by an exception, after
\* which save goes on to the legacy file and the manager lives on, or by
\* the end of the process.
save_interrupted(n, killed) ==
    LET order == by_category_order(manager.keys, manager.metadata)
    IN  /\ manager.alive
        /\ n \in 1..Len(order)
        /\ shards' = [c \in ShardNames |->
                         IF c \in Range(SubSeq(order, 1, n))
                         THEN Shard(by_category(c, manager.metadata))
                         ELSE shards[c]]
        /\ manager' = IF killed THEN NoManager ELSE manager
        /\ UNCHANGED <<index, defaults, sessionVars, readVars, legacy>>

\* open(category_path, 'w') and a yaml.dump that ends early: the file is
\* cut to nothing and then holds the first m records, in the order of
\* sort_keys.
TornShard(data, m) ==
    Shard([k \in Range(SubSeq(SortedKeys(DOMAIN data), 1, m)) |-> data[k]])

\* save, ended by the end of the process while save_category writes the
\* file of the category after the first n.
save_category_interrupted(n, m) ==
    LET order == by_category_order(manager.keys, manager.metadata)
    IN  /\ manager.alive
        /\ n \in 0..(Len(order) - 1)
        /\ m \in 0..(Cardinality(DOMAIN by_category(order[n + 1], manager.metadata)) - 1)
        /\ shards' = [c \in ShardNames |->
                         IF c \in Range(SubSeq(order, 1, n))
                         THEN Shard(by_category(c, manager.metadata))
                         ELSE IF c = order[n + 1]
                         THEN TornShard(by_category(c, manager.metadata), m)
                         ELSE shards[c]]
        /\ manager' = NoManager
        /\ UNCHANGED <<index, defaults, sessionVars, readVars, legacy>>

\* ------------------------------------------------------------------------
\* update_index.py
\* ------------------------------------------------------------------------

RECURSIVE Sum(_, _)
Sum(f, S) == IF S = {} THEN 0 ELSE LET x == CHOOSE x \in S : TRUE IN f[x] + Sum(f, S \ {x})

\* A scan that passes over the files without a key.
scanned_index_NonEmptyOnly(sh) ==
    LET yaml_files == SelectSeq(ShardOrder,
                                LAMBDA c : sh[c].exists /\ DOMAIN sh[c].data # {})
        total_strings == Sum([c \in Range(yaml_files) |-> Cardinality(DOMAIN sh[c].data)],
                             Range(yaml_files))
    IN  [categories |->
             [i \in 1..Len(yaml_files) |->
                 Category(yaml_files[i], SortedKeys(DOMAIN sh[yaml_files[i]].data))],
         documented_strings |-> total_strings,
         total_strings |-> total_strings]

\* main: the index is built anew from the *.yaml files in sorted order.
scanned_index(sh) ==
    LET yaml_files == SelectSeq(ShardOrder, LAMBDA c : sh[c].exists)
        total_strings == Sum([c \in Range(yaml_files) |-> Cardinality(DOMAIN sh[c].data)],
                             Range(yaml_files))
    IN  [categories |->
             [i \in 1..Len(yaml_files) |->
                 Category(yaml_files[i], SortedKeys(DOMAIN sh[yaml_files[i]].data))],
         documented_strings |-> total_strings,
         total_strings |-> total_strings]

\* update_index.py, main: the index is rebuilt from the shard files.
update_index ==
    /\ index' = scanned_index(shards)
    /\ UNCHANGED <<shards, defaults, manager, sessionVars, readVars, legacy>>

\* ------------------------------------------------------------------------
\* cleanup_orphaned_metadata.py
\* ------------------------------------------------------------------------

\* find_orphaned_metadata: for every category of the index, the keys of its
\* list that strings.xml lacks; a category without such keys is left out.
find_orphaned_metadata(ix, xml_strings) ==
    LET orphaned(i) == SelectSeq(ix.categories[i].keys, LAMBDA k : k \notin xml_strings)
        with == {i \in 1..Len(ix.categories) : orphaned(i) # <<>>}
    IN  [c \in {ix.categories[i].name : i \in with} |->
            orphaned(CHOOSE i \in with : ix.categories[i].name = c)]

\* remove_orphaned_metadata: the number of orphaned keys the file of a
\* category has (no file, none), and category_data after they are deleted.
removed_count(c, orphaned_by_category) ==
    IF c \in DOMAIN orphaned_by_category /\ shards[c].exists
    THEN Cardinality(Range(orphaned_by_category[c]) \cap DOMAIN shards[c].data)
    ELSE 0

category_data(c, orphaned_by_category) ==
    [k \in DOMAIN shards[c].data \ Range(orphaned_by_category[c]) |-> shards[c].data[k]]

\* remove_orphaned_metadata: the loop over orphaned_keys for one category
\* file.  A key the file has is counted, and deleted unless it is a dry run.
RECURSIVE DeleteKeys(_, _, _)
DeleteKeys(orphaned_keys, data, dry_run) ==
    IF orphaned_keys = <<>> THEN [data |-> data, removed_count |-> 0]
    ELSE LET key == Head(orphaned_keys)
             found == key \in DOMAIN data
             after == IF found /\ ~dry_run
                      THEN [k \in DOMAIN data \ {key} |-> data[k]]
                      ELSE data
             rest == DeleteKeys(Tail(orphaned_keys), after, dry_run)
         IN  [data |-> rest.data,
              removed_count |-> rest.removed_count + (IF found THEN 1 ELSE 0)]

\* remove_orphaned_metadata: the loop over the categories.  A category
\* without a file is passed over; a file is written when keys were removed
\* from it and it is not a dry run.
RECURSIVE RemoveLoop(_, _, _, _)
RemoveLoop(categories, orphaned_by_category, sh, dry_run) ==
    IF categories = <<>> THEN [shards |-> sh, total_removed |-> 0]
    ELSE LET category == Head(categories)
             done == DeleteKeys(orphaned_by_category[category], sh[category].data, dry_run)
             after == IF done.removed_count > 0 /\ ~dry_run
                      THEN [sh EXCEPT ![category] = Shard(done.data)]
                      ELSE sh
         IN  IF ~sh[category].exists
             THEN RemoveLoop(Tail(categories), orphaned_by_category, sh, dry_run)
             ELSE LET rest == RemoveLoop(Tail(categories), orphaned_by_category, after, dry_run)
                  IN  [shards |-> rest.shards,
                       total_removed |-> rest.total_removed + done.removed_count]

\* remove_orphaned_metadata: the index without the orphaned keys, and
\* without a category whose list is empty then.
IndexWithout(ix, orphaned_by_category) ==
    LET filtered(cat) ==
            IF cat.name \in DOMAIN orphaned_by_category
            THEN Category(cat.name,
                          SelectSeq(cat.keys,
                                    LAMBDA k : k \notin Range(orphaned_by_category[cat.name])))
            ELSE cat
        kept == SelectSeq(ix.categories,
                          LAMBDA cat : ~(cat.name \in DOMAIN orphaned_by_category
                                         /\ filtered(cat).keys = <<>>))
    IN  [ix EXCEPT !.categories = [i \in 1..Len(kept) |-> filtered(kept[i])]]

\* The categories of orphaned_by_category, in the order of the index.
OrphanedCategories(ix, orphaned_by_category) ==
    SelectSeq(get_categories(ix), LAMBDA c : c \in DOMAIN orphaned_by_category)

\* A remove_orphaned_metadata that takes no notice of dry_run.
remove_orphaned_result_NoDryRun(ix, sh, orphaned_by_category, dry_run) ==
    LET loop == RemoveLoop(OrphanedCategories(ix, orphaned_by_category),
                           orphaned_by_category, sh, FALSE)
    IN  [shards |-> loop.shards,
         index |-> IndexWithout(ix, orphaned_by_category),
         total_removed |-> loop.total_removed]

\* remove_orphaned_metadata(metadata_dir, orphaned_by_category, dry_run):
\* the files and the index after it, and the number it returns.
remove_orphaned_result(ix, sh, orphaned_by_category, dry_run) ==
    LET loop == RemoveLoop(OrphanedCategories(ix, orphaned_by_category),
                           orphaned_by_category, sh, dry_run)
    IN  [shards |-> loop.shards,
         index |-> IF dry_run THEN ix ELSE IndexWithout(ix, orphaned_by_category),
         total_removed |-> loop.total_removed]

\* remove_orphaned_metadata, not a dry run: the orphaned keys leave the
\* shards that have them and the lists of the index, and a category whose
\* list is empty then leaves the index.
remove_orphaned_metadata(orphaned_by_category) ==
    LET result == remove_orphaned_result(index, shards, orphaned_by_category, FALSE)
    IN  /\ shards' = result.shards
        /\ index' = result.index

\* main: nothing is removed unless --execute is given.
cleanup_orphaned_metadata(dry_run) ==
    LET orphaned_by_category == find_orphaned_metadata(index, XmlKeys)
    IN  /\ IF orphaned_by_category = EmptyDict \/ dry_run
           THEN UNCHANGED <<index, shards>>
           ELSE remove_orphaned_metadata(orphaned_by_category)
        /\ UNCHANGED <<defaults, manager, sessionVars, readVars, legacy>>

\* A main that removes whether or not --execute is given.
dry_run_of_Never(execute) == FALSE

\* main: dry_run is True unless --execute is on the command line.
dry_run_of(execute) == ~execute

\* main, the command line kept: nothing is removed unless --execute is
\* given.
cleanup_main(execute) ==
    LET orphaned_by_category == find_orphaned_metadata(index, XmlKeys)
    IN  /\ returned' = [call |-> "cleanup_orphaned_metadata",
                        arg |-> [execute |-> execute],
                        outcome |-> "None", value |-> EmptyDict]
        /\ IF orphaned_by_category = EmptyDict \/ dry_run_of(execute)
           THEN UNCHANGED <<index, shards>>
           ELSE remove_orphaned_metadata(orphaned_by_category)
        /\ UNCHANGED <<defaults, manager, io, held, sessionVars, legacy>>

\* main with --execute, ended by the end of the process while the file of
\* a category is written: the files of the categories before it in
\* orphaned_by_category are written, the index is not.
cleanup_interrupted(category, m) ==
    LET orphaned_by_category == find_orphaned_metadata(index, XmlKeys)
        names == get_categories(index)
        before == {names[i] : i \in {i \in 1..Len(names) :
                                        \E j \in (i + 1)..Len(names) : names[j] = category}}
    IN  /\ removed_count(category, orphaned_by_category) > 0
        /\ m \in 0..(Cardinality(DOMAIN category_data(category, orphaned_by_category)) - 1)
        /\ shards' = [c \in ShardNames |->
                         IF c = category
                         THEN TornShard(category_data(c, orphaned_by_category), m)
                         ELSE IF c \in before /\ removed_count(c, orphaned_by_category) > 0
                         THEN Shard(category_data(c, orphaned_by_category))
                         ELSE shards[c]]
        /\ UNCHANGED <<index, defaults, manager, sessionVars, readVars, legacy>>

\* ------------------------------------------------------------------------
\* metadata_io.py: a MetadataIO instance and its caller
\* ------------------------------------------------------------------------

\* A cache of MetadataIO that is None, and one that holds a value.
NoIndex == [categories |-> <<>>, documented_strings |-> 0, total_strings |-> 0]
NotCached(empty) == [loaded |-> FALSE, value |-> empty]
Cached(value) == [loaded |-> TRUE, value |-> value]

\* MetadataIO.__init__
NoIO ==
    [index |-> NotCached(NoIndex),
     defaults |-> NotCached(EmptyDict),
     category_cache |-> EmptyDict]

\* No call has returned, and the caller keeps no record.
NoCall == [call |-> "none", arg |-> None, outcome |-> "None", value |-> EmptyDict]
NoRecord ==
    [has |-> FALSE, category |-> None, key |-> None, record |-> EmptyDict,
     owner |-> EmptyDict]

\* _load_index, _load_defaults, _load_category_file: the cached value when
\* there is one, the file otherwise.
IndexOf(i) == IF i.index.loaded THEN i.index.value ELSE index
DefaultsOf(i) == IF i.defaults.loaded THEN i.defaults.value ELSE defaults
CategoryFiles(i) ==
    [c \in ShardNames |->
        IF c \in DOMAIN i.category_cache THEN Shard(i.category_cache[c]) ELSE shards[c]]

\* self._category_cache after _load_category_file for these categories.
LoadedCategories(i, categories) ==
    [c \in DOMAIN i.category_cache \cup {c \in categories : shards[c].exists} |->
        CategoryFiles(i)[c].data]

\* The objects a merged record is made of.  merged[key] is a new dict when
\* the default is a dict; it is the object of the record of the shard, or
\* the object of the defaults when the record lacks the key, otherwise.
\* The values in a new dict are the objects of the record, and the objects
\* of the defaults for the keys the record lacks.
Paths(merged) ==
    {<<g>> : g \in DictFields \cap DOMAIN merged}
        \cup {<<g, k>> : g \in DictFields \cap DOMAIN merged, k \in NestedFields}
Owners(merged, record, dflt) ==
    [p \in {p \in Paths(merged) : Len(p) = 1 \/ p[2] \in DOMAIN merged[p[1]]} |->
        IF p[1] \in DOMAIN dflt
        THEN IF Len(p) = 1 THEN "merged"
             ELSE IF p[2] \in DOMAIN Get(record, p[1], EmptyDict) THEN "record"
             ELSE "defaults"
        ELSE "record"]

\* A record of a result, kept by the caller.
Held(category, key, merged, dflt) ==
    [has |-> TRUE, category |-> category, key |-> key, record |-> merged,
     owner |-> Owners(merged, CategoryFiles(io)[category].data[key], dflt)]

\* io.get_string_metadata(string_key)
call_get_string_metadata(string_key) ==
    LET ix == IndexOf(io)
        dflt == DefaultsOf(io)
        category == category_for(string_key, ix)
        result == get_string_metadata(string_key, ix, CategoryFiles(io), dflt)
    IN  /\ io' = [index |-> Cached(ix),
                  defaults |-> IF result.outcome = "record" THEN Cached(dflt) ELSE io.defaults,
                  category_cache |-> LoadedCategories(io, {category} \ {None})]
        /\ returned' = [call |-> "get_string_metadata", arg |-> string_key,
                        outcome |-> result.outcome,
                        value |-> IF result.outcome = "record"
                                  THEN [k \in {string_key} |-> result.record]
                                  ELSE EmptyDict]
        /\ held' = IF result.outcome = "record"
                   THEN Held(category, string_key, result.record, dflt)
                   ELSE held
        /\ UNCHANGED <<index, shards, defaults, manager, sessionVars, legacy>>

\* io.get_category_metadata(category); the caller keeps one of the records.
call_get_category_metadata(category) ==
    LET dflt == DefaultsOf(io)
        sh == CategoryFiles(io)
        result == get_category_metadata(category, sh, dflt)
    IN  /\ io' = [io EXCEPT
                     !.defaults = IF sh[category].exists /\ DOMAIN result # {}
                                  THEN Cached(dflt) ELSE @,
                     !.category_cache = LoadedCategories(io, {category})]
        /\ returned' = [call |-> "get_category_metadata", arg |-> category,
                        outcome |-> IF sh[category].exists THEN "record"
                                    ELSE "FileNotFoundError",
                        value |-> IF sh[category].exists THEN result ELSE EmptyDict]
        /\ IF sh[category].exists /\ DOMAIN result # {}
           THEN \E key \in DOMAIN result : held' = Held(category, key, result[key], dflt)
           ELSE held' = held
        /\ UNCHANGED <<index, shards, defaults, manager, sessionVars, legacy>>

\* io.get_all_metadata(); the caller keeps one of the records.  The
\* categories are loaded in the order of the index up to the first whose
\* file is missing.
call_get_all_metadata ==
    LET ix == IndexOf(io)
        dflt == DefaultsOf(io)
        sh == CategoryFiles(io)
        names == get_categories(ix)
        missing == {i \in 1..Len(names) : ~sh[names[i]].exists}
        reached == {names[i] : i \in {i \in 1..Len(names) : \A j \in missing : i <= j}}
        result == get_all_metadata(ix, sh, dflt)
        holder(key) ==
            names[CHOOSE i \in 1..Len(names) :
                      /\ key \in DOMAIN sh[names[i]].data
                      /\ \A j \in (i + 1)..Len(names) : key \notin DOMAIN sh[names[j]].data]
    IN  /\ io' = [index |-> Cached(ix),
                  defaults |-> IF \E c \in reached : sh[c].exists /\ DOMAIN sh[c].data # {}
                               THEN Cached(dflt) ELSE io.defaults,
                  category_cache |-> LoadedCategories(io, reached)]
        /\ returned' = [call |-> "get_all_metadata", arg |-> None,
                        outcome |-> result.outcome, value |-> result.record]
        /\ IF result.outcome = "record" /\ DOMAIN result.record # {}
           THEN \E key \in DOMAIN result.record :
                    held' = Held(holder(key), key, result.record[key], dflt)
           ELSE held' = held
        /\ UNCHANGED <<index, shards, defaults, manager, sessionVars, legacy>>

\* The value a caller writes into a record it keeps.
Changed == "changed"

\* The caller does record[g][k] = Changed, k a key of record[g] whose value
\* is a text.  record[g] is a new dict of the merge, or the dict the cached
\* category data has.
caller_sets_field(g, k) ==
    /\ held.has
    /\ <<g>> \in DOMAIN held.owner
    /\ k \in DOMAIN held.record[g] \ NestedFields
    /\ held' = [held EXCEPT !.record[g][k] = Changed]
    /\ io' = IF held.owner[<<g>>] = "record"
             THEN [io EXCEPT !.category_cache[held.category][held.key][g][k] = Changed]
             ELSE io
    /\ UNCHANGED <<index, shards, defaults, manager, returned, sessionVars, legacy>>

\* The caller does record[g][k][j] = Changed.  record[g][k] is the dict the
\* cached category data has, or the dict the cached defaults have.
caller_sets_nested_field(g, k, j) ==
    /\ held.has
    /\ <<g, k>> \in DOMAIN held.owner
    /\ j \in DOMAIN held.record[g][k]
    /\ held' = [held EXCEPT !.record[g][k][j] = Changed]
    /\ io' = IF held.owner[<<g, k>>] = "record"
             THEN [io EXCEPT !.category_cache[held.category][held.key][g][k][j] = Changed]
             ELSE [io EXCEPT !.defaults.value[g][k][j] = Changed]
    /\ UNCHANGED <<index, shards, defaults, manager, returned, sessionVars, legacy>>

\* ------------------------------------------------------------------------
\* The reports of the tools that compare the records with strings.xml
\* ------------------------------------------------------------------------

\* validate_consistency: the number of keys without metadata it lists.
ShownMissing == 10

\* A validate_consistency whose list of keys without metadata is the list
\* of the metadata without strings.
validate_issues_Swapped(xml_keys, meta_keys, shown) ==
    [missing_count |-> Cardinality(meta_keys \ xml_keys),
     shown |-> meta_keys \ xml_keys,
     more |-> 0,
     orphaned |-> xml_keys \ meta_keys]

\* validate_consistency: the issues.  The strings without metadata are
\* counted, those of list(missing_metadata)[:10] are listed, and the number
\* of the others is given; the metadata without strings are all listed.
validate_issues(xml_keys, meta_keys, shown) ==
    LET missing_metadata == xml_keys \ meta_keys
    IN  [missing_count |-> Cardinality(missing_metadata),
         shown |-> shown,
         more |-> IF Cardinality(missing_metadata) > ShownMissing
                  THEN Cardinality(missing_metadata) - ShownMissing
                  ELSE 0,
         orphaned |-> meta_keys \ xml_keys]

\* list(missing_metadata)[:10]: the first ten of a set in the order Python
\* iterates it, which is any order.
FirstOfSet(missing_metadata) ==
    IF Cardinality(missing_metadata) <= ShownMissing THEN {missing_metadata}
    ELSE {some \in SUBSET missing_metadata : Cardinality(some) = ShownMissing}

\* manager.validate_consistency(), strings.xml having these names.
call_validate_consistency(xml_keys) ==
    LET meta_keys == DOMAIN manager.metadata
    IN  /\ manager.alive
        /\ manager' = [manager EXCEPT !.total_strings = Cardinality(xml_keys)]
        /\ \E shown \in FirstOfSet(xml_keys \ meta_keys) :
               returned' = [call |-> "validate_consistency",
                            arg |-> [xml_keys |-> xml_keys, meta_keys |-> meta_keys],
                            outcome |-> "record",
                            value |-> validate_issues(xml_keys, meta_keys, shown)]
        /\ UNCHANGED <<index, shards, defaults, io, held, sessionVars, legacy>>

\* find_orphaned_metadata(metadata_dir, xml_path), strings.xml having these
\* names.
call_find_orphaned_metadata(xml_strings) ==
    /\ returned' = [call |-> "find_orphaned_metadata",
                    arg |-> [xml_keys |-> xml_strings, meta_keys |-> get_all_string_keys(index)],
                    outcome |-> "record",
                    value |-> find_orphaned_metadata(index, xml_strings)]
    /\ UNCHANGED <<index, shards, defaults, manager, io, held, sessionVars, legacy>>

\* remove_orphaned_metadata(metadata_dir, orphaned_by_category, dry_run)
\* for the orphaned_by_category of find_orphaned_metadata, strings.xml
\* having these names.
call_remove_orphaned_metadata(xml_strings, dry_run) ==
    LET orphaned_by_category == find_orphaned_metadata(index, xml_strings)
        result == remove_orphaned_result(index, shards, orphaned_by_category, dry_run)
    IN  /\ shards' = result.shards
        /\ index' = result.index
        /\ returned' = [call |-> "remove_orphaned_metadata",
                        arg |-> [xml_keys |-> xml_strings, dry_run |-> dry_run],
                        outcome |-> "record",
                        value |-> [total_removed |-> result.total_removed]]
        /\ UNCHANGED <<defaults, manager, io, held, sessionVars, legacy>>

ReportNext ==
    \/ MetadataManager_init
    \/ \E xml_strings \in SourceSets, dry_run \in BOOLEAN :
           call_remove_orphaned_metadata(xml_strings, dry_run)
    \/ ManagerExit
    \/ \E xml_keys \in SourceSets : call_validate_consistency(xml_keys)
    \/ \E xml_strings \in SourceSets : call_find_orphaned_metadata(xml_strings)

\* ------------------------------------------------------------------------
\* The metadata storage: initial state and steps
\* ------------------------------------------------------------------------

\* The arguments of add_metadata.
DataChoices ==
    {[category |-> "b", technical |-> [html_formatting |-> "True"]],
     EmptyDict}

\* defaults.json
Defaults ==
    [purpose |-> "general",
     technical |-> [format_specifiers |-> "False", html_formatting |-> "False"]]

\* The categories the keys are in before the first step: a key is in the
\* shard of one category or in none.
InitLayouts == [MetaKeys -> {"a", "b", "none"}]

\* The record a shard has for a key before the first step.
InitRecord(category) == [category |-> category]

\* The storage of a layout: a shard for each category with keys, and the
\* index that lists exactly those.
InitShards(layout) ==
    [c \in ShardNames |->
        IF \E k \in MetaKeys : layout[k] = c
        THEN Shard([k \in {k \in MetaKeys : layout[k] = c} |-> InitRecord(c)])
        ELSE NoShard]

InitIndex(layout) ==
    LET names == SelectSeq(ShardOrder, LAMBDA c : \E k \in MetaKeys : layout[k] = c)
        keys == {k \in MetaKeys : layout[k] # "none"}
    IN  [categories |->
            [i \in 1..Len(names) |->
                Category(names[i], SortedKeys({k \in MetaKeys : layout[k] = names[i]}))],
         documented_strings |-> Cardinality(keys),
         total_strings |-> Cardinality(XmlKeys)]

RepoInit ==
    /\ \E layout \in InitLayouts :
           /\ shards = InitShards(layout)
           /\ index = InitIndex(layout)
    /\ defaults = Defaults
    /\ manager = NoManager
    /\ legacy = NoLegacy
    /\ io = NoIO
    /\ returned = NoCall
    /\ held = NoRecord

RepoNext ==
    \/ MetadataManager_init
    \/ \E key \in MetaKeys, data \in DataChoices : add_metadata(key, data)
    \/ \E key \in MetaKeys : remove_metadata(key)
    \/ validate_consistency
    \/ save
    \/ ManagerExit
    \/ update_index
    \/ \E dry_run \in BOOLEAN : cleanup_orphaned_metadata(dry_run)

\* ------------------------------------------------------------------------
\* A MetadataIO instance: initial state and steps
\* ------------------------------------------------------------------------

\* defaults.json with a dict inside a dict.
GuidanceDefaults ==
    [purpose |-> "general",
     translation_guidance |->
         [tone |-> "neutral",
          terminology |-> [domain |-> "general", critical |-> "False"]]]

\* The records a shard has.
ReadRecords ==
    {[category |-> "a"],
     [category |-> "a", purpose |-> "label",
      translation_guidance |-> [terminology |-> [domain |-> "sms"]]],
     [category |-> "a", technical |-> [html_formatting |-> "True"],
      translation_guidance |-> [tone |-> "formal"]]}

\* The storage a MetadataIO instance is made for: the index lists every key
\* under one category or none, the file of category a may be missing,
\* and a file may lack a key the index lists under it; defaults.json is
\* missing ({}), or is one of two.
ReadInit ==
    /\ \E listing \in InitLayouts, record \in ReadRecords,
          stored \in SUBSET MetaKeys, missing \in {{}, {"a"}} :
           /\ index = InitIndex(listing)
           /\ shards = [c \in ShardNames |->
                           IF c \in missing \/ c = "uncategorized" THEN NoShard
                           ELSE Shard([k \in {k \in stored : listing[k] = c} |-> record])]
    /\ defaults \in {EmptyDict, Defaults, GuidanceDefaults}
    /\ manager = NoManager
    /\ legacy = NoLegacy
    /\ io = NoIO
    /\ returned = NoCall
    /\ held = NoRecord

ReadNext ==
    \/ \E string_key \in MetaKeys : call_get_string_metadata(string_key)
    \/ \E category \in {"a", "b"} : call_get_category_metadata(category)
    \/ call_get_all_metadata
    \/ \E g \in DictFields, k \in {"tone", "html_formatting"} : caller_sets_field(g, k)
    \/ \E g \in DictFields, k \in NestedFields, j \in {"domain", "critical"} :
           caller_sets_nested_field(g, k, j)

\* ------------------------------------------------------------------------
\* Specifications
\* ------------------------------------------------------------------------

\* The storage while the translation sessions run.
RepoIdle ==
    /\ shards = InitShards([k \in MetaKeys |-> "a"])
    /\ index = InitIndex([k \in MetaKeys |-> "a"])
    /\ defaults = Defaults
    /\ manager = NoManager
    /\ legacy = NoLegacy
    /\ io = NoIO
    /\ returned = NoCall
    /\ held = NoRecord

\* The session while the tools of the metadata storage run.
SessionIdle ==
    /\ SessionInit
    /\ files = [a \in AndroidLocales |-> NoFile]

Init == SessionInit /\ RepoIdle

Next == SessionNext

Spec == Init /\ [][Next]_vars

InitRepo == SessionIdle /\ RepoInit

NextRepo == RepoNext

SpecRepo == InitRepo /\ [][NextRepo]_vars

\* The reads of a MetadataIO instance and the changes its caller makes to
\* a record it got.
InitRead == SessionIdle /\ ReadInit

NextRead == ReadNext

SpecRead == InitRead /\ [][NextRead]_vars

\* The reports on the storage and strings.xml.
NextReport == ReportNext

SpecReport == InitRepo /\ [][NextReport]_vars

\* ------------------------------------------------------------------------
\* manage_string_metadata.py: the split format and the legacy format
\* ------------------------------------------------------------------------

\* load: what it reads.  is_split_format() holds, for index.json exists; the
\* split format is read unless get_all_metadata raises, then the legacy
\* file if there is one.
loaded_format(ix, sh, dflt, lg) ==
    IF get_all_metadata(ix, sh, dflt).outcome = "record" THEN "split format"
    ELSE IF lg.exists THEN "legacy format"
    ELSE "not found"

\* load, the legacy file: file_data and the records of its "strings".
load_legacy(lg) ==
    [alive |-> TRUE,
     keys |-> lg.keys,
     metadata |-> [key \in DOMAIN lg.strings |-> StringMetadata(lg.strings[key])],
     total_strings |-> lg.total_strings]

\* MetadataManager(metadata_file, strings_file), with what load prints.
call_MetadataManager ==
    /\ ~manager.alive
    /\ LET format == loaded_format(index, shards, defaults, legacy)
       IN  /\ manager' = IF format = "legacy format"
                         THEN load_legacy(legacy)
                         ELSE load(index, shards, defaults)
           /\ returned' = [call |-> "load", arg |-> None, outcome |-> format,
                           value |-> EmptyDict]
    /\ UNCHANGED <<index, shards, defaults, io, held, legacy, sessionVars>>

\* save(), with what it prints.  fails_at = 0: every write succeeds.
\* fails_at = n: open() of the n-th category file raises, the files before
\* it are written.  fails_at = the number of categories + 1: open() of
\* index.json raises.  After an exception the working set is written to the
\* legacy file.
call_save(fails_at) ==
    LET order == by_category_order(manager.keys, manager.metadata)
        written == IF fails_at = 0 THEN Range(order)
                   ELSE Range(SubSeq(order, 1, fails_at - 1))
    IN  /\ manager.alive
        /\ fails_at \in 0..(Len(order) + 1)
        /\ shards' = [c \in ShardNames |->
                         IF c \in written THEN Shard(by_category(c, manager.metadata))
                         ELSE shards[c]]
        /\ index' = IF fails_at = 0 THEN saved_index(manager) ELSE index
        /\ legacy' = IF fails_at = 0 THEN legacy
                     ELSE Legacy(manager.keys, manager.metadata, manager.total_strings)
        /\ returned' = [call |-> "save", arg |-> fails_at,
                        outcome |-> IF fails_at = 0 THEN "split format" ELSE "legacy format",
                        value |-> EmptyDict]
        /\ UNCHANGED <<defaults, manager, io, held, sessionVars>>

\* The storage a MetadataManager is made for: a layout of the split format,
\* with the file of category a there or not, and with or without a legacy
\* file.
StrategyInit ==
    /\ \E layout \in InitLayouts, missing \in {{}, {"a"}} :
           /\ shards = [c \in ShardNames |->
                           IF c \in missing THEN NoShard ELSE InitShards(layout)[c]]
           /\ index = InitIndex(layout)
    /\ legacy \in {NoLegacy, Legacy(<<"K1">>, [k \in {"K1"} |-> InitRecord("a")], 0)}
    /\ defaults = Defaults
    /\ manager = NoManager
    /\ io = NoIO
    /\ returned = NoCall
    /\ held = NoRecord

StrategyNext ==
    \/ call_MetadataManager
    \/ \E key \in MetaKeys, data \in DataChoices : add_metadata(key, data)
    \/ \E fails_at \in 0..(Cardinality(ShardNames) + 1) : call_save(fails_at)

\* ------------------------------------------------------------------------
\* metadata_io.py: save_defaults
\* ------------------------------------------------------------------------

\* What a caller gives save_defaults: a record of defaults, or a document
\* that holds one under "defaults".
DefaultsRecords == {Defaults, GuidanceDefaults}
DefaultsArguments == DefaultsRecords \cup {[defaults |-> d] : d \in DefaultsRecords}

\* _load_defaults on the file save_defaults wrote: json.dump writes
\* defaults_data as the document, and data.get('defaults', {}) is read.
written_defaults(defaults_data) == Get(defaults_data, "defaults", EmptyDict)

\* io.save_defaults(defaults_data): the file is written and the cache is
\* cleared.
call_save_defaults(defaults_data) ==
    /\ defaults' = written_defaults(defaults_data)
    /\ io' = [io EXCEPT !.defaults = NotCached(EmptyDict)]
    /\ returned' = [call |-> "save_defaults", arg |-> defaults_data,
                    outcome |-> "None", value |-> EmptyDict]
    /\ UNCHANGED <<index, shards, manager, held, sessionVars, legacy>>

\* The reads of a MetadataIO instance and its writes of the defaults.
DefaultsNext ==
    \/ \E string_key \in MetaKeys : call_get_string_metadata(string_key)
    \/ \E category \in {"a", "b"} : call_get_category_metadata(category)
    \/ call_get_all_metadata
    \/ \E defaults_data \in DefaultsArguments : call_save_defaults(defaults_data)

\* ------------------------------------------------------------------------
\* metadata_io.py: save_category
\* ------------------------------------------------------------------------

\* What a caller gives save_category: no record, a record for one key, or
\* a record for every key.
SavedData ==
    {EmptyDict,
     [k \in {"K1"} |-> [category |-> "b", purpose |-> "button"]],
     [k \in MetaKeys |-> [category |-> "a"]]}

\* A save_category that leaves the cache as it is.
cache_after_save_Kept(category_cache, category) == category_cache

\* save_category, "Clear cache": the entry of the category is deleted.
cache_after_save(category_cache, category) ==
    [c \in DOMAIN category_cache \ {category} |-> category_cache[c]]

\* io.save_category(category, data): the file is written and the entry of
\* the cache is deleted.
call_save_category(category, data) ==
    /\ shards' = [shards EXCEPT ![category] = Shard(data)]
    /\ io' = [io EXCEPT !.category_cache = cache_after_save(@, category)]
    /\ returned' = [call |-> "save_category",
                    arg |-> [category |-> category, data |-> data],
                    outcome |-> "None", value |-> EmptyDict]
    /\ UNCHANGED <<index, defaults, manager, held, sessionVars, legacy>>

\* The reads of a MetadataIO instance and its writes of the shards.
CacheNext ==
    \/ \E string_key \in MetaKeys : call_get_string_metadata(string_key)
    \/ \E category \in {"a", "b"} : call_get_category_metadata(category)
    \/ call_get_all_metadata
    \/ \E category \in {"a", "b"}, data \in SavedData : call_save_category(category, data)

\* ------------------------------------------------------------------------
\* translate_with_context.py: the attributes of a <string> element
\* ------------------------------------------------------------------------

\* The pieces the texts of the elements are made of, and how many of them
\* a text has at most.
FormatPieces ==
    {<<"%", "1", "$", "d">>, <<"%", "2", "$", "d">>, <<"%", "d">>, <<"%", "s">>,
     <<"%", "n", "a", "m", "e", "%">>, <<"a">>, <<" ">>, <<"%">>, <<"'">>}
MaxPieces == 2

RECURSIVE PieceTexts(_)
PieceTexts(n) ==
    IF n = 0 THEN {<<>>}
    ELSE PieceTexts(n - 1) \cup {t \o piece : t \in PieceTexts(n - 1), piece \in FormatPieces}

\* \w of the regular expressions, for the characters of the pieces.
WordChars == {"a", "d", "e", "m", "n", "s", "1", "2"}

\* [sdifgeoxX]
SpecifierChars == {"s", "d", "i", "f", "g", "e", "o", "x", "X"}

\* existing[key] and re.search(r'%\w+%', existing[key])
has_custom_placeholders(text) ==
    \E i, j \in 1..Len(text) :
        /\ i + 1 < j
        /\ text[i] = "%" /\ text[j] = "%"
        /\ \A k \in (i + 1)..(j - 1) : text[k] \in WordChars

\* re.findall(r'%[sdifgeoxX]', existing[key]): where the matches start.
android_specs(text) ==
    {i \in 1..(Len(text) - 1) : text[i] = "%" /\ text[i + 1] \in SpecifierChars}

\* len(android_specs) >= 2
has_multiple_android_specs(text) == Cardinality(android_specs(text)) >= 2

\* string_elem.attrib once the element is built: formatted="false" for a key
\* whose record has format specifiers, and for a text with either pattern.
string_attrib(text, format_specifiers) ==
    IF format_specifiers \/ has_custom_placeholders(text) \/ has_multiple_android_specs(text)
    THEN [formatted |-> "false"]
    ELSE EmptyDict

\* save_translations, one element of a locale file: the answer of the
\* service is escaped and the element is built from it.
build_string_element ==
    /\ returned.call = "none"
    /\ returned' = [call |-> "string_element",
                    arg |-> [text |-> escape_android_string(returned.arg.value),
                             format_specifiers |-> returned.arg.format_specifiers],
                    outcome |-> "record",
                    value |-> string_attrib(escape_android_string(returned.arg.value),
                                            returned.arg.format_specifiers)]
    /\ UNCHANGED <<index, shards, defaults, manager, io, held, sessionVars, legacy>>

\* An answer of the service for a key, and whether the record of the key
\* has format specifiers.
FormatInit ==
    /\ shards = InitShards([k \in MetaKeys |-> "a"])
    /\ index = InitIndex([k \in MetaKeys |-> "a"])
    /\ defaults = Defaults
    /\ manager = NoManager
    /\ legacy = NoLegacy
    /\ io = NoIO
    /\ held = NoRecord
    /\ returned \in {[NoCall EXCEPT !.arg = [value |-> value, format_specifiers |-> fs]] :
                        value \in PieceTexts(MaxPieces), fs \in BOOLEAN}

\* The command lines of a forced re-translation.
ForcedConfigs == {c \in Configs : c.force}

\* The two tools that destroy: one forced re-translation, and orphan removal
\* any number of times.
NextDestructive ==
    \/ \E c \in ForcedConfigs : Start(c)
    \/ SpecificKey
    \/ NoScan
    \/ TranslateString
    \/ \E resp \in Responses(cfg.target_languages) : Answer(resp)
    \/ EndTranslate
    \/ SaveLocale
    \/ EndSave
    \/ KeyboardInterrupt
    \/ InterruptedWrite
    \/ \E execute \in BOOLEAN : cleanup_main(execute)

SpecDestructive == Init /\ [][NextDestructive]_vars

\* One MetadataManager that loads and saves, with writes that fail.
InitStrategy == SessionIdle /\ StrategyInit

NextStrategy == StrategyNext

SpecStrategy == InitStrategy /\ [][NextStrategy]_vars

\* A MetadataIO instance that reads records and writes the defaults.
NextDefaults == DefaultsNext

SpecDefaults == InitRead /\ [][NextDefaults]_vars

\* A MetadataIO instance that reads records and writes shards.
NextCache == CacheNext

SpecCache == InitRead /\ [][NextCache]_vars

\* The elements save_translations builds.
InitFormat == SessionIdle /\ FormatInit

NextFormat == build_string_element

SpecFormat == InitFormat /\ [][NextFormat]_vars

\* The writers of the shards, with the writes that end early.
NextFault ==
    \/ MetadataManager_init
    \/ \E key \in MetaKeys, data \in DataChoices : add_metadata(key, data)
    \/ save
    \/ ManagerExit
    \/ \E dry_run \in BOOLEAN : cleanup_orphaned_metadata(dry_run)
    \/ \E n \in 1..Len(ShardOrder), killed \in BOOLEAN : save_interrupted(n, killed)
    \/ \E n \in 0..Len(ShardOrder), m \in 0..Cardinality(MetaKeys) :
           save_category_interrupted(n, m)
    \/ \E category \in ShardNames, m \in 0..Cardinality(MetaKeys) :
           cleanup_interrupted(category, m)

SpecFault == InitRepo /\ [][NextFault]_vars


\* ------------------------------------------------------------------------
\* Words of the specification
\* ------------------------------------------------------------------------

\* The output store of a target locale holds a non-empty text for the key.
HoldsText(fs, api_locale, key) ==
    LET file == fs[LOCALE_MAPPING(api_locale)]
    IN  /\ file.state = "ok"
        /\ key \in DOMAIN file.entries
        /\ file.entries[key].text # <<>>

\* A complete key: a non-empty text in the output store of every target.
IsComplete(fs, target_languages, key) ==
    \A api_locale \in Range(target_languages) : HoldsText(fs, api_locale, key)

\* An invocation of main() is under way.
Running == pc \in {"init", "translate", "dispatch", "save"}

\* A run over the documented keys that resumes: no --string, no --force.
ResumingRun == cfg.specific_key = None /\ ~cfg.force

\* The key translate_all is at.
CurrentKey == keys_to_translate[idx]

\* The key has its result: translations recorded, or a place in failed_keys.
HasResult(key, at, failed) == key \in DOMAIN at \/ key \in Range(failed)

\* An answer that has some of the target languages and not all of them.
IsPartial(resp, target_languages) ==
    /\ resp.ok
    /\ DOMAIN resp.translations # {}
    /\ DOMAIN resp.translations # Range(target_languages)

\* ------------------------------------------------------------------------
\* C1  Resume idempotence
\* ------------------------------------------------------------------------

\* C1, as stated: when the same command line, with --output and without
\* --force, is run a second time after the first run ended, the second run
\* sends no key to the translation service.
C1_SecondRunDispatchesNothing ==
    (pc # "idle" /\ rerun.after = "done" /\ cfg.save_output /\ ~cfg.force)
        => dispatch_log = <<>>

\* C1, amended: the second run sends no key to the translation service when
\* no --string is given and every answer of the first run held a non-empty
\* text for every target language.
C1_ResumeIdempotence ==
    (pc # "idle" /\ rerun.after = "done" /\ rerun.clean /\ cfg.save_output /\ ResumingRun)
        => dispatch_log = <<>>

\* C1, witness: a second run that ended, after a first run that translated
\* both ordinary keys and saved them; the second run found both complete.
C1_Witness ==
    /\ pc = "done" /\ runs = 2
    /\ rerun.after = "done" /\ rerun.clean
    /\ cfg.save_output /\ ~cfg.dry_run /\ ResumingRun
    /\ complete_strings = {"k1", "k2"}
    /\ \E a \in AndroidLocales :
           files[a].state = "ok" /\ "k2" \in DOMAIN files[a].entries
    /\ dispatch_log = <<>>

\* ------------------------------------------------------------------------
\* C2  No regression of a complete key
\* ------------------------------------------------------------------------

\* C2: in a run over the documented keys without --force, no step sends a
\* complete key to the translation service and no step changes the text a
\* complete key has in the output store of a target locale.
C2_CompleteKeyUntouched ==
    [][(Running /\ ResumingRun) =>
          \A key \in DOMAIN metadata :
              IsComplete(files, cfg.target_languages, key) =>
                  /\ dispatch_log' = dispatch_log \/ dispatch_log' # Append(dispatch_log, key)
                  /\ \A api_locale \in Range(cfg.target_languages) :
                         /\ HoldsText(files', api_locale, key)
                         /\ files'[LOCALE_MAPPING(api_locale)].entries[key].text
                                = files[LOCALE_MAPPING(api_locale)].entries[key].text]_vars

\* ------------------------------------------------------------------------
\* C3  The resume scan
\* ------------------------------------------------------------------------

\* What C3 says of a run: complete_strings holds the complete keys and
\* exactly the other documented keys are to be translated.
ScanIsExact ==
    /\ \A key \in DOMAIN metadata :
           key \in complete_strings <=> IsComplete(files, cfg.target_languages, key)
    /\ Range(keys_to_translate) =
           {key \in DOMAIN metadata : ~IsComplete(files, cfg.target_languages, key)}

C4_MergeIsNonDestructive ==
    [][(pc = "save" /\ pc' = "save" /\ pending # <<>>) =>
          LET android_locale == Head(pending)
              new == by_locale(all_translations)[android_locale]
              old == ParsedFile(files[android_locale])
              now == ParsedFile(files'[android_locale])
          IN  /\ \A key \in DOMAIN old \ DOMAIN new :
                     key \in DOMAIN now /\ now[key].text = old[key].text
              /\ \A key \in DOMAIN new :
                     key \in DOMAIN now /\ now[key].text = escape_android_string(new[key])]_vars

\* ------------------------------------------------------------------------
\* C5  Escaped exactly once
\* ------------------------------------------------------------------------

\* C5: over any sequence of runs, every text in a locale file went through
\* escape_android_string exactly once: a new text once before the merge, a
\* text already in the file not again.
C5_EscapedExactlyOnce ==
    \A a \in AndroidLocales :
        \A key \in DOMAIN ParsedFile(files[a]) : ParsedFile(files[a])[key].esc = 1

\* C5, witness: a second run wrote a file again; the file holds a text the
\* first run translated, which the second run read back and did not
\* translate, next to a text the second run translated.
C5_Witness ==
    /\ runs = 2 /\ pc = "done"
    /\ "k1" \in DOMAIN all_translations
    /\ "k2" \notin DOMAIN all_translations
    /\ \E a \in saved_locales :
           /\ files[a].state = "ok"
           /\ DOMAIN files[a].entries = {"k1", "k2"}
           /\ files[a].entries["k1"].text = <<"\\", "'", "\n", "b">>
           /\ files[a].entries["k2"].text = <<"\\", "'", "\n", "b">>

\* ------------------------------------------------------------------------
\* C6  A failing key does not abort the session
\* ------------------------------------------------------------------------

\* C6: a key whose prompt cannot be built or whose call fails is put on
\* failed_keys; every key to translate has its result when translate_all
\* returns, and the success and failure counts add up to the keys to
\* translate.
C6_FailureDoesNotAbort ==
    /\ \A i \in 1..Len(keys_to_translate) :
           (i < idx /\ (~PromptBuilds(metadata[keys_to_translate[i]])
                        \/ (keys_to_translate[i] \in DOMAIN answers
                            /\ ~answers[keys_to_translate[i]].ok)))
               => keys_to_translate[i] \in Range(failed_keys)
    /\ pc \in {"save", "done"} =>
           /\ \A key \in Range(keys_to_translate) :
                  HasResult(key, all_translations, failed_keys)
           /\ Cardinality(DOMAIN all_translations) + Len(failed_keys)
                  = Len(keys_to_translate)

\* C6, witness: a run ended in which the call for the first ordinary key
\* failed, a prompt could not be built, and the second ordinary key, which
\* came after the failure, was translated.
C6_Witness ==
    /\ pc = "done"
    /\ "k1" \in DOMAIN answers /\ ~answers["k1"].ok
    /\ "k1" \in Range(failed_keys)
    /\ "bad_spec" \in Range(failed_keys)
    /\ "k2" \in DOMAIN all_translations

\* ------------------------------------------------------------------------
\* C7  A partial answer
\* ------------------------------------------------------------------------

\* C7: a key whose answer lacks some target languages is not put on
\* failed_keys and the session goes on; when the run has saved, every
\* locale of the answer holds the key's text in its file.
C7_PartialAnswerAccepted ==
    \A key \in DOMAIN answers :
        IsPartial(answers[key], cfg.target_languages) =>
            /\ Running \/ pc = "done" => key \notin Range(failed_keys)
            /\ Running \/ pc = "done" => key \in DOMAIN all_translations
            /\ (pc = "done" /\ cfg.save_output) =>
                   \A api_locale \in DOMAIN answers[key].translations :
                       LET file == files[LOCALE_MAPPING(api_locale)]
                       IN  /\ file.state = "ok"
                           /\ key \in DOMAIN file.entries
                           /\ file.entries[key].text =
                                  WrittenText(escape_android_string(
                                      answers[key].translations[api_locale]))

\* C7, witness: a run ended and saved in which the first ordinary key got
\* an answer for one of two target languages and the second ordinary key,
\* which came after it, was translated.
C7_Witness ==
    /\ pc = "done" /\ cfg.save_output
    /\ Len(cfg.target_languages) = 2
    /\ "k1" \in DOMAIN answers
    /\ IsPartial(answers["k1"], cfg.target_languages)
    /\ "k2" \in DOMAIN all_translations
    /\ saved_locales # {}

\* ------------------------------------------------------------------------
\* C8  Interruption
\* ------------------------------------------------------------------------

\* C8: an interruption at any point of a run leaves every locale file
\* intact: every entry a file held before the interruption is still read
\* from it afterwards.
C8_InterruptionLeavesFilesIntact ==
    [][(Running /\ pc' = "interrupted") =>
          \A a \in AndroidLocales :
              \A key \in DOMAIN ParsedFile(files[a]) :
                  /\ key \in DOMAIN ParsedFile(files'[a])
                  /\ ParsedFile(files'[a])[key] = ParsedFile(files[a])[key]]_vars

\* ------------------------------------------------------------------------
\* C9  Cooperative cancellation
\* ------------------------------------------------------------------------

\* C9: while a key is being processed the session is not aborted: the step
\* that follows gives the key its result, and a cancellation is taken up
\* only between two keys.
C9_KeyFinishesBeforeCancel ==
    [][pc = "dispatch" =>
          /\ pc' = "translate"
          /\ HasResult(CurrentKey, all_translations', failed_keys')]_vars

\* ------------------------------------------------------------------------
\* C10  Single read and bulk read
\* ------------------------------------------------------------------------

\* C10: in every state of the storage, for every key that the index lists
\* and get_all_metadata returns, get_string_metadata returns the record
\* that get_all_metadata has for the key.
C10_GetAgreesWithGetAll ==
    LET all_metadata == get_all_metadata(index, shards, defaults)
    IN  all_metadata.outcome = "record" =>
            \A K \in DOMAIN all_metadata.record \cap get_all_string_keys(index) :
                get_string_metadata(K, index, shards, defaults)
                    = ReturnRecord(all_metadata.record[K])

\* ------------------------------------------------------------------------
\* Words of the specification: the repository
\* ------------------------------------------------------------------------

\* The index lists the key under the category.
Listed(ix, category, key) ==
    \E i \in 1..Len(ix.categories) :
        ix.categories[i].name = category /\ key \in Range(ix.categories[i].keys)

\* The effective record: the record with the defaults applied.
Effective(record) == merge_with_defaults(record, defaults)

\* A fresh load from the index and the shards gives the keys of the
\* working set and, for every key, a record with the same effective record.
FreshLoadGivesWorkingSet(ix, sh) ==
    LET fresh == load(ix, sh, defaults)
    IN  /\ DOMAIN fresh.metadata = DOMAIN manager.metadata
        /\ Range(fresh.keys) = Range(manager.keys)
        /\ \A key \in DOMAIN manager.metadata :
               Effective(fresh.metadata[key]) = Effective(manager.metadata[key])

\* ------------------------------------------------------------------------
\* C11  Round trip
\* ------------------------------------------------------------------------

\* C11: whenever a MetadataManager is alive, a fresh load from the index
\* and the shards that save() writes has the keys of the working set that
\* was saved and, for every key, a record whose effective record is that
\* of the record in the working set.
C11_SaveThenLoadRoundTrip ==
    manager.alive =>
        FreshLoadGivesWorkingSet(saved_index(manager), saved_shards(shards, manager))

\* C11, witness: the storage holds what a working set of two keys was saved
\* as, one of the keys without a category and with an empty technical
\* group, and a fresh load gives that working set.
C11_Witness ==
    /\ manager.alive
    /\ DOMAIN manager.metadata = {"K1", "K2"}
    /\ manager.metadata["K1"].category = ""
    /\ manager.metadata["K1"].technical = EmptyDict
    /\ manager.metadata["K2"].category = "b"
    /\ shards["uncategorized"] = Shard(by_category("uncategorized", manager.metadata))
    /\ shards["b"] = Shard(by_category("b", manager.metadata))
    /\ get_categories(index) = <<"uncategorized", "b">>
    /\ index = saved_index(manager)
    /\ shards = saved_shards(shards, manager)
    /\ FreshLoadGivesWorkingSet(index, shards)

\* ------------------------------------------------------------------------
\* C12  Category move
\* ------------------------------------------------------------------------

\* C12: after save(), every key of the working set is in the shard of the
\* category its record has and in the key list the index has for that
\* category, and it is in no other shard and in no other key list - also
\* when the key was the only key of the category it left.
C12_KeyMovesBetweenShards ==
    [][save =>
          \A key \in DOMAIN manager.metadata :
              \A c \in ShardNames :
                  IF c = category_of(manager.metadata[key])
                  THEN key \in DOMAIN shards'[c].data /\ Listed(index', c, key)
                  ELSE key \notin DOMAIN shards'[c].data /\ ~Listed(index', c, key)]_vars

\* ------------------------------------------------------------------------
\* C13  Index and shards agree
\* ------------------------------------------------------------------------

\* The index and the shards agree in both directions.
IndexAgreesWithShards ==
    /\ \A i \in 1..Len(index.categories) :
           \A key \in Range(index.categories[i].keys) :
               /\ shards[index.categories[i].name].exists
               /\ key \in DOMAIN shards[index.categories[i].name].data
    /\ \A c \in ShardNames :
           \A key \in DOMAIN shards[c].data : Listed(index, c, key)

\* C13: after every save(), every key the index lists under a category has
\* an entry in the shard of that category, and no shard holds an entry for
\* a key the index does not list under that category.
C13_IndexAndShardsAgreeAfterSave ==
    [][save => IndexAgreesWithShards']_vars

\* ------------------------------------------------------------------------
\* C14  A key is in one category
\* ------------------------------------------------------------------------

\* C14: in every reachable state of the storage a key is in the key list
\* of at most one category of the index.
C14_KeyInAtMostOneCategory ==
    \A key \in MetaKeys :
        Cardinality({c \in ShardNames : Listed(index, c, key)}) <= 1

\* ------------------------------------------------------------------------
\* C15  The load after an interrupted save
\* ------------------------------------------------------------------------

\* The keys stored in the shard files.
StoredKeys == UNION {DOMAIN shards[c].data : c \in ShardNames}

\* The keys of the working set a load of the storage gives.
LoadedKeys == DOMAIN load(index, shards, defaults).metadata

\* C15: when a save() has ended after one or more shards were rewritten and
\* before the index was, the key-set of the next load is the union of the
\* keys the shards hold.
C15_LoadFollowsShardsAfterInterruptedSave ==
    [][(\E n \in 1..Len(ShardOrder), killed \in BOOLEAN : save_interrupted(n, killed))
          => (LoadedKeys = StoredKeys)']_vars

\* ------------------------------------------------------------------------
\* C16  A shard write is atomic
\* ------------------------------------------------------------------------

\* C16: in every step, a write that ends early among them, the shard file
\* of a category is as it was before the step or has the whole content the
\* writer was to give it: the records save() has for the category, or the
\* records orphan removal leaves in it.
C16_ShardWriteIsAtomic ==
    [][\A c \in ShardNames :
          \/ shards'[c] = shards[c]
          \/ /\ manager.alive
             /\ shards'[c] = Shard(by_category(c, manager.metadata))
          \/ /\ c \in DOMAIN find_orphaned_metadata(index, XmlKeys)
             /\ shards'[c] = Shard(category_data(c, find_orphaned_metadata(index, XmlKeys)))]_vars

\* ------------------------------------------------------------------------
\* C18  getAll and a key stored in two shards
\* ------------------------------------------------------------------------

\* C18: the entry getAll() has for a key is the effective record of the
\* first shard, in the order of the categories of the index, that stores
\* the key: the entry of a later shard does not take its place.
C18_FirstEntryNotOverwritten ==
    LET names == get_categories(index)
        all_metadata == get_all_metadata(index, shards, defaults)
        holders(k) == {i \in 1..Len(names) : k \in DOMAIN shards[names[i]].data}
        first(k) == CHOOSE i \in holders(k) : \A j \in holders(k) : i <= j
    IN  all_metadata.outcome = "record" =>
            \A k \in DOMAIN all_metadata.record :
                all_metadata.record[k] = Effective(shards[names[first(k)]].data[k])

\* ------------------------------------------------------------------------
\* C17  The failures of get(key)
\* ------------------------------------------------------------------------

\* C17: get(key) returns None when no category of the index lists the key,
\* raises FileNotFoundError when the index lists the key under a category
\* whose shard file does not exist, and returns None when the shard file
\* exists and does not have the key.
C17_GetFailureOutcomes ==
    returned.call = "get_string_metadata" =>
        LET category == category_for(returned.arg, index)
        IN  /\ category = None => returned.outcome = "None"
            /\ category # None /\ ~shards[category].exists
                   => returned.outcome = "FileNotFoundError"
            /\ category # None /\ shards[category].exists
                   /\ returned.arg \notin DOMAIN shards[category].data
                   => returned.outcome = "None"

\* get(key) has raised FileNotFoundError for a key the index lists under a
\* category whose shard file is missing, while the other key is not in the
\* shard the index lists it under.
C17_Witness ==
    /\ returned.call = "get_string_metadata"
    /\ returned.arg = "K1"
    /\ returned.outcome = "FileNotFoundError"
    /\ category_for("K1", index) = "a"
    /\ ~shards["a"].exists
    /\ category_for("K2", index) = "b"
    /\ shards["b"].exists
    /\ "K2" \notin DOMAIN shards["b"].data
    /\ get_string_metadata("K2", IndexOf(io), CategoryFiles(io), DefaultsOf(io)) = ReturnNone

\* ------------------------------------------------------------------------
\* C19  The effective record is Defaults (+) Record
\* ------------------------------------------------------------------------

\* The merge as the specification words it: for every group of the
\* defaults, a composite default overridden key by key by the group of the
\* record, one level only; a scalar default replaced by the value of the
\* record when there is one; the fields the defaults lack passed through.
ReferenceMerge(record, dflt) ==
    LET groups == DOMAIN dflt
        composite(g) == g \in DictFields
        overridden(g) ==
            LET supplied == IF g \in DOMAIN record THEN record[g] ELSE EmptyDict
            IN  [k \in DOMAIN dflt[g] \cup DOMAIN supplied |->
                    IF k \in DOMAIN supplied THEN supplied[k] ELSE dflt[g][k]]
        passed == DOMAIN record \ groups
    IN  [g \in groups \cup passed |->
            IF g \in passed THEN record[g]
            ELSE IF composite(g) THEN overridden(g)
            ELSE IF g \in DOMAIN record THEN record[g]
            ELSE dflt[g]]

\* C19: every record get, getByCategory and getAll give is the reference
\* merge of the defaults and the record the shard has.
C19_EffectiveRecordIsReferenceMerge ==
    LET ix == IndexOf(io)
        sh == CategoryFiles(io)
        dflt == DefaultsOf(io)
        all_metadata == get_all_metadata(ix, sh, dflt)
    IN  /\ \A key \in MetaKeys :
               LET result == get_string_metadata(key, ix, sh, dflt)
               IN  result.outcome = "record" =>
                       result.record =
                           ReferenceMerge(sh[category_for(key, ix)].data[key], dflt)
        /\ \A c \in ShardNames :
               \A key \in DOMAIN sh[c].data :
                   /\ get_category_metadata(c, sh, dflt)[key] = ReferenceMerge(sh[c].data[key], dflt)
                   /\ (all_metadata.outcome = "record" /\ category_for(key, ix) = c)
                          => all_metadata.record[key] = ReferenceMerge(sh[c].data[key], dflt)

\* get(key) has given a record in which the scalar default of purpose is
\* replaced, the tone of the composite default stands, the nested group of
\* the record has replaced the nested group of the default whole, and
\* category is passed through.
C19_Witness ==
    /\ returned.call = "get_string_metadata"
    /\ returned.outcome = "record"
    /\ defaults = GuidanceDefaults
    /\ DefaultsOf(io) = GuidanceDefaults
    /\ returned.value[returned.arg] =
           [category |-> "a", purpose |-> "label",
            translation_guidance |->
                [tone |-> "neutral", terminology |-> [domain |-> "sms"]]]
    /\ returned.value[returned.arg] =
           get_string_metadata(returned.arg, IndexOf(io), CategoryFiles(io), DefaultsOf(io)).record

\* ------------------------------------------------------------------------
\* C20  The merge is pure
\* ------------------------------------------------------------------------

\* C20: the cached defaults are the defaults that were loaded, whatever the
\* calls of get, getByCategory and getAll and whatever the caller has done
\* since to a record it was given.
C20_CachedDefaultsUnchanged ==
    io.defaults.loaded => io.defaults.value = defaults

\* ------------------------------------------------------------------------
\* C21  put and remove change the working set only
\* ------------------------------------------------------------------------

\* C21: a step in which the working set of a live manager changes, which
\* is what add_metadata and remove_metadata do, leaves every shard and the
\* index as they are.
C21_PutAndRemoveLeaveStorage ==
    [][(/\ manager.alive
        /\ manager'.alive
        /\ <<manager'.keys, manager'.metadata>> # <<manager.keys, manager.metadata>>)
          => (index' = index /\ shards' = shards)]_vars

\* After an add_metadata and a remove_metadata without a save: the working
\* set has K1, which no shard holds, and lacks K2, which the shard and the
\* index still have.
C21_Witness ==
    /\ manager.alive
    /\ DOMAIN manager.metadata = {"K1"}
    /\ manager.metadata["K1"].category = "b"
    /\ \A c \in ShardNames : "K1" \notin DOMAIN shards[c].data
    /\ get_all_string_keys(index) = {"K2"}
    /\ "K2" \in DOMAIN shards["a"].data
    /\ Listed(index, "a", "K2")

\* ------------------------------------------------------------------------
\* C22  Orphaned and undocumented keys
\* ------------------------------------------------------------------------

\* The keys of all the groups of a result of find_orphaned_metadata.
AllOrphaned(by_cat) == UNION {Range(by_cat[c]) : c \in DOMAIN by_cat}

\* find_orphaned_metadata has given, under each category, the keys the
\* index lists under it that strings.xml lacks, and no other group.
OrphansExact ==
    returned.call = "find_orphaned_metadata" =>
        /\ AllOrphaned(returned.value) = get_all_string_keys(index) \ returned.arg.xml_keys
        /\ \A c \in DOMAIN returned.value :
               /\ returned.value[c] # <<>>
               /\ \A key \in Range(returned.value[c]) : Listed(index, c, key)

\* C22 as stated: findOrphans() gives exactly the keys of the repository
\* that the source lacks, by category, and findUndocumented() gives exactly
\* the keys of the source that the repository lacks.
C22_ReportsAreExact ==
    /\ OrphansExact
    /\ returned.call = "validate_consistency" =>
           /\ returned.value.orphaned = returned.arg.meta_keys \ returned.arg.xml_keys
           /\ returned.value.shown = returned.arg.xml_keys \ returned.arg.meta_keys

\* C22: findOrphans() gives exactly the keys of the repository that the
\* source lacks, by category; validate_consistency lists exactly the
\* metadata without strings, counts exactly the strings without metadata,
\* and lists all of these when they are ten or fewer, and otherwise ten of
\* them with the number of the others.
C22_ReportsExactUpToTen ==
    /\ OrphansExact
    /\ returned.call = "validate_consistency" =>
           LET undocumented == returned.arg.xml_keys \ returned.arg.meta_keys
           IN  /\ returned.value.orphaned = returned.arg.meta_keys \ returned.arg.xml_keys
               /\ returned.value.missing_count = Cardinality(undocumented)
               /\ returned.value.shown \subseteq undocumented
               /\ Cardinality(undocumented) <= ShownMissing
                      => returned.value.shown = undocumented /\ returned.value.more = 0
               /\ Cardinality(undocumented) > ShownMissing
                      => /\ Cardinality(returned.value.shown) = ShownMissing
                         /\ returned.value.more = Cardinality(undocumented) - ShownMissing

\* validate_consistency has run with the source {K1} and the working set
\* {K1, K2}: K2 is reported orphaned and nothing undocumented.
C22_Witness ==
    /\ returned.call = "validate_consistency"
    /\ returned.arg = [xml_keys |-> {"K1"}, meta_keys |-> {"K1", "K2"}]
    /\ DOMAIN manager.metadata = {"K1", "K2"}
    /\ returned.value.orphaned = {"K2"}
    /\ returned.value.shown = {}
    /\ returned.value.missing_count = 0

\* ------------------------------------------------------------------------
\* C23  Orphan removal as a dry run
\* ------------------------------------------------------------------------

\* C23: whatever the storage and the names of strings.xml, orphan removal
\* as a dry run leaves every shard and the index as they are, and returns
\* the number that orphan removal in execute mode returns.
C23_DryRunChangesNothingAndCountsTheSame ==
    \A xml_strings \in SourceSets :
        LET orphaned_by_category == find_orphaned_metadata(index, xml_strings)
            dry == remove_orphaned_result(index, shards, orphaned_by_category, TRUE)
            execute == remove_orphaned_result(index, shards, orphaned_by_category, FALSE)
        IN  /\ dry.shards = shards
            /\ dry.index = index
            /\ dry.total_removed = execute.total_removed

\* A dry run has returned 1 for K2, which strings.xml lacks: the shard and
\* the index still have K2, and execute mode would take it out of both.
C23_Witness ==
    /\ returned.call = "remove_orphaned_metadata"
    /\ returned.arg = [xml_keys |-> {"K1"}, dry_run |-> TRUE]
    /\ returned.value.total_removed = 1
    /\ "K2" \in DOMAIN shards["a"].data
    /\ Listed(index, "a", "K2")
    /\ LET execute == remove_orphaned_result(index, shards,
                                             find_orphaned_metadata(index, {"K1"}), FALSE)
       IN  /\ execute.total_removed = 1
           /\ "K2" \notin DOMAIN execute.shards["a"].data
           /\ ~Listed(execute.index, "a", "K2")

\* ------------------------------------------------------------------------
\* C24  Destructive operations preview by default
\* ------------------------------------------------------------------------

\* C24: a step of a forced re-translation changes a locale file only when
\* --output was given and --dry-run was not, and a step of orphan removal
\* changes a shard or the index only when --execute was given.
C24_NothingChangesUnlessAskedFor ==
    [][/\ files' # files => cfg.save_output /\ ~cfg.dry_run
       /\ <<index, shards>>' # <<index, shards>> =>
              /\ returned'.call = "cleanup_orphaned_metadata"
              /\ returned'.arg.execute]_vars

\* A forced re-translation without --output has ended with translations in
\* memory and no locale file on disk, and orphan removal without --execute
\* has run while K2, which strings.xml lacks, is still in its shard and in
\* the index.
C24_Witness ==
    /\ pc = "done"
    /\ cfg.force /\ ~cfg.save_output /\ ~cfg.dry_run
    /\ all_translations # EmptyDict
    /\ \A a \in AndroidLocales : files[a] = NoFile
    /\ returned.call = "cleanup_orphaned_metadata"
    /\ ~returned.arg.execute
    /\ "K2" \notin XmlKeys
    /\ "K2" \in DOMAIN shards["a"].data
    /\ Listed(index, "a", "K2")

\* ------------------------------------------------------------------------
\* C25  After orphan removal no orphan is left
\* ------------------------------------------------------------------------

\* The storage remove_orphaned_metadata leaves in execute mode, given the
\* orphans find_orphaned_metadata reports.
AfterRemoval ==
    remove_orphaned_result(index, shards, find_orphaned_metadata(index, XmlKeys), FALSE)

\* C25: after remove_orphaned_metadata in execute mode a following
\* find_orphaned_metadata reports nothing, and no shard holds a record of a
\* key that strings.xml lacks.
C25_RemovalLeavesNoOrphanRecord ==
    /\ find_orphaned_metadata(AfterRemoval.index, XmlKeys) = EmptyDict
    /\ \A c \in ShardNames : DOMAIN AfterRemoval.shards[c].data \subseteq XmlKeys

\* ------------------------------------------------------------------------
\* C26  No empty category in the index
\* ------------------------------------------------------------------------

\* The categories orphan removal empties: every key the index lists under
\* them is an orphan.
EmptiedCategories ==
    {c \in DOMAIN find_orphaned_metadata(index, XmlKeys) :
        \A i \in 1..Len(index.categories) :
            index.categories[i].name = c =>
                Range(index.categories[i].keys) \subseteq
                    Range(find_orphaned_metadata(index, XmlKeys)[c])}

\* An index that lists a category with no key.
HasEmptyCategory(ix) ==
    \E i \in 1..Len(ix.categories) : ix.categories[i].keys = <<>>

\* C26: a category emptied by orphan removal is not in the index the removal
\* writes, and the index update_index builds afterwards lists no category
\* without a key.
C26_EmptiedCategoryStaysOutOfIndex ==
    EmptiedCategories # {} =>
        /\ \A c \in EmptiedCategories : c \notin Range(get_categories(AfterRemoval.index))
        /\ ~HasEmptyCategory(AfterRemoval.index)
        /\ ~HasEmptyCategory(scanned_index(AfterRemoval.shards))

\* ------------------------------------------------------------------------
\* C27  Phases of a session run
\* ------------------------------------------------------------------------

\* The steps from one phase to the next: INIT is "init", the resume scan or
\* its omission is the step to "translate", prompts are built in "translate"
\* and calls are made in "dispatch" key by key, the output is merged in
\* "save", DONE is "done".
PhaseSteps ==
    {<<"idle", "init">>, <<"init", "translate">>, <<"translate", "dispatch">>,
     <<"dispatch", "translate">>, <<"translate", "save">>, <<"translate", "done">>,
     <<"save", "done">>, <<"done", "init">>, <<"interrupted", "init">>}

\* The steps of an interruption.
InterruptSteps == {<<p, "interrupted">> : p \in {"init", "translate", "dispatch", "save"}}

\* The step out of INIT has loaded the existing translations.
Scanned ==
    /\ complete_strings' = CompleteStrings(files, cfg.target_languages, metadata)
    /\ incomplete_strings' = IncompleteStrings(files, cfg.target_languages, metadata)

\* The step out of INIT has loaded nothing.
NotScanned == complete_strings' = {} /\ incomplete_strings' = {}

\* The order of the phases, the writes and the failures, whatever decides
\* on the scan.
PhaseOrder ==
    /\ pc' # pc => <<pc, pc'>> \in PhaseSteps \cup InterruptSteps
    /\ <<pc, pc'>> = <<"translate", "save">> =>
           ~cfg.dry_run /\ cfg.save_output /\ all_translations # EmptyDict
    /\ files' # files => pc = "save" /\ idx > Len(keys_to_translate)
    /\ (Len(failed_keys') > Len(failed_keys)) => pc' = "translate" /\ idx' = idx + 1

ReachedDispatch ==
    LET n == IF pc = "dispatch" THEN idx ELSE idx - 1
    IN  SelectSeq(SubSeq(keys_to_translate, 1, n), LAMBDA k : BeforeDispatch(k) = "call")

\* C28: in a run the service is called at most once for a key, and the calls
\* made are the keys that have reached dispatch, one call each, however many
\* target languages there are.
C28_OneCallPerDispatchedKey ==
    pc \in {"translate", "dispatch", "save", "done"} =>
        /\ \A i, j \in 1..Len(dispatch_log) : dispatch_log[i] = dispatch_log[j] => i = j
        /\ dispatch_log = ReachedDispatch

\* A run with two target languages is done after two keys went to the
\* service: two calls were made.
C28_Witness ==
    /\ pc = "done"
    /\ Len(cfg.target_languages) = 2
    /\ Len(ReachedDispatch) = 2
    /\ Len(dispatch_log) = 2

\* ------------------------------------------------------------------------
\* C29  Texts with placeholders are flagged formatted="false"
\* ------------------------------------------------------------------------

\* A %name% placeholder: a name of letters between two percent signs.
HasNamedPlaceholder(text) ==
    \E i, j \in 1..Len(text) :
        /\ i + 1 < j
        /\ text[i] = "%" /\ text[j] = "%"
        /\ \A k \in (i + 1)..(j - 1) : text[k] \in {"a", "e", "m", "n"}

\* Where the positional specifiers of a text start: %1$d, %2$d.
PositionalSpecifiers(text) ==
    {i \in 1..(Len(text) - 3) :
        /\ text[i] = "%"
        /\ text[i + 1] \in {"1", "2"}
        /\ text[i + 2] = "$"
        /\ text[i + 3] \in SpecifierChars}

\* C29: an element whose text has a %name% placeholder, or two or more
\* positional format specifiers, is built with formatted="false".
C29_PlaceholdersAreFlagged ==
    returned.call = "string_element" =>
        ((\/ HasNamedPlaceholder(returned.arg.text)
          \/ Cardinality(PositionalSpecifiers(returned.arg.text)) >= 2)
            => /\ "formatted" \in DOMAIN returned.value
               /\ returned.value.formatted = "false")

\* ------------------------------------------------------------------------
\* C30  Defaults are cached, and a write of the defaults clears the cache
\* ------------------------------------------------------------------------

\* C30: once save_defaults has written a record of defaults, the cache is
\* empty and every record a read gives is the merge of the record of the
\* shard with the defaults that were written.
C30_ReadsAfterWriteUseWrittenDefaults ==
    (returned.call = "save_defaults" /\ returned.arg \in DefaultsRecords) =>
        /\ ~io.defaults.loaded
        /\ \A key \in MetaKeys :
               LET ix == IndexOf(io)
                   sh == CategoryFiles(io)
                   result == get_string_metadata(key, ix, sh, DefaultsOf(io))
               IN  result.outcome = "record" =>
                       result.record =
                           ReferenceMerge(sh[category_for(key, ix)].data[key], returned.arg)

\* ------------------------------------------------------------------------
\* C31  A dry run calls nothing and writes nothing
\* ------------------------------------------------------------------------

\* C31: a step of a run in dry-run mode makes no call of the translation
\* service and changes no locale file, whatever --force, --output and
\* --string are.
C31_DryRunCallsAndWritesNothing ==
    [][(cfg.dry_run /\ cfg' = cfg) =>
           /\ files' = files
           /\ dispatch_log' = dispatch_log
           /\ pc' \notin {"dispatch", "save"}]_vars

\* A dry run with --force and --output is done: it holds the source texts as
\* translations, it has called nothing and no locale file exists.
C31_Witness ==
    /\ pc = "done"
    /\ cfg.dry_run /\ cfg.force /\ cfg.save_output
    /\ all_translations # EmptyDict
    /\ dispatch_log = <<>>
    /\ \A a \in AndroidLocales : files[a] = NoFile

\* ------------------------------------------------------------------------
\* C32  A key without source text is skipped
\* ------------------------------------------------------------------------

\* The documented keys strings.xml has no text for.
WithoutSourceText ==
    {key \in DOMAIN metadata : (IF key \in DOMAIN strings THEN strings[key] ELSE <<>>) = <<>>}

\* C32: a documented key without source text is not sent to the translation
\* service and is not on the list of failed translations, and the run goes
\* on to the keys after it.
C32_KeyWithoutSourceIsSkippedNotFailed ==
    \A key \in WithoutSourceText :
        /\ key \notin Range(dispatch_log)
        /\ key \notin Range(failed_keys)
        /\ pc = "done" => \A k \in Range(keys_to_translate) :
                              HasResult(k, all_translations, failed_keys) \/ k = key

\* ------------------------------------------------------------------------
\* C33  The cache of a category follows save_category
\* ------------------------------------------------------------------------

\* What get_category_metadata gives on this instance, and on an instance
\* made now.
OnThisInstance(c) ==
    [exists |-> CategoryFiles(io)[c].exists,
     result |-> get_category_metadata(c, CategoryFiles(io), DefaultsOf(io))]
OnFreshInstance(c) ==
    [exists |-> shards[c].exists,
     result |-> get_category_metadata(c, shards, defaults)]

\* C33: after any saves and reads on one instance, get_category_metadata
\* gives for every category what a fresh instance gives, and right after
\* save_category(c, data) that is data merged with the defaults.
C33_CategoryReadFollowsLastSave ==
    /\ \A c \in {"a", "b"} : OnThisInstance(c) = OnFreshInstance(c)
    /\ returned.call = "save_category" =>
           /\ OnThisInstance(returned.arg.category).exists
           /\ OnThisInstance(returned.arg.category).result =
                  [k \in DOMAIN returned.arg.data |->
                      ReferenceMerge(returned.arg.data[k], defaults)]

\* A read of category a has given the record that only a save_category on
\* this instance can have put there.
C33_Witness ==
    /\ returned.call = "get_category_metadata"
    /\ returned.arg = "a"
    /\ returned.outcome = "record"
    /\ "a" \in DOMAIN io.category_cache
    /\ DOMAIN io.category_cache["a"] = {"K1"}
    /\ io.category_cache["a"]["K1"] = [category |-> "b", purpose |-> "button"]
    /\ returned.value["K1"].purpose = "button"

\* ------------------------------------------------------------------------
\* C34  One storage format per instance
\* ------------------------------------------------------------------------

\* C34: a save() writes the format the load of the instance read, and the
\* format the save() before it wrote, also when a write of a shard or of
\* the index fails.
C34_SaveKeepsLoadedFormat ==
    [][(/\ returned'.call = "save"
        /\ returned.call \in {"load", "save"}
        /\ returned.outcome \in {"split format", "legacy format"})
           => returned'.outcome = returned.outcome]_vars

\* ------------------------------------------------------------------------
\* C35  update_index rebuilds the index from the shards
\* ------------------------------------------------------------------------

\* The pairs of a shard file and a key it holds.
StoredPairs ==
    {<<c, k>> \in ShardNames \X (MetaKeys \cup Range(ExtraKeys)) :
        shards[c].exists /\ k \in DOMAIN shards[c].data}

\* C35: the index update_index builds lists every shard file once, with
\* exactly the keys the file holds and none twice, lists no other category,
\* and has the number of keys over all files as total_strings.
C35_RegeneratedIndexFollowsShards ==
    LET ix == scanned_index(shards)
        names == get_categories(ix)
    IN  /\ Range(names) = {c \in ShardNames : shards[c].exists}
        /\ \A i, j \in 1..Len(names) : names[i] = names[j] => i = j
        /\ \A i \in 1..Len(names) :
               /\ Range(ix.categories[i].keys) = DOMAIN shards[names[i]].data
               /\ Len(ix.categories[i].keys) = Cardinality(DOMAIN shards[names[i]].data)
        /\ ix.total_strings = Cardinality(StoredPairs)

\* update_index has run on a storage where the files of a and b both hold
\* K2 and a third file holds no key: the index lists three categories and
\* counts K2 twice.
C35_Witness ==
    /\ index = scanned_index(shards)
    /\ Len(index.categories) = 3
    /\ Listed(index, "a", "K2") /\ Listed(index, "b", "K2")
    /\ \E i \in 1..Len(index.categories) : index.categories[i].keys = <<>>
    /\ index.total_strings = Cardinality(StoredPairs)

\* ------------------------------------------------------------------------
\* C36  a targeted key (--string)
\* ------------------------------------------------------------------------

\* The command lines that target one key: every documented key and a key
\* without a metadata record.
SpecificConfigs ==
    {[c EXCEPT !.specific_key = k] :
        c \in Configs, k \in Range(DocKeys) \cup {"undocumented"}}

\* One translator run on a targeted key.
NextSpecific ==
    \/ \E c \in SpecificConfigs : Start(c)
    \/ SpecificKey
    \/ TranslateString
    \/ \E resp \in Responses(cfg.target_languages) : Answer(resp)
    \/ EndTranslate
    \/ SaveLocale
    \/ EndSave
    \/ KeyboardInterrupt
    \/ InterruptedWrite

SpecSpecific == Init /\ [][NextSpecific]_vars

\* The run has gone through its one translate_string call.
SpecificRunOver == cfg.specific_key # None /\ pc \in {"save", "done"}

\* C36 as stated: a run on a targeted key always dispatches that key, and
\* no other.
C36_TargetedKeyAlwaysDispatched ==
    SpecificRunOver => dispatch_log = <<cfg.specific_key>>

\* C36 amended: a run on a targeted key makes no resume scan and dispatches
\* no other key; it dispatches the targeted key, complete or not, unless
\* the run is a dry run or translate_string gives the key up before the
\* call (no metadata record, no source text, a prompt that cannot be built).
C36_TargetedKeyDispatchedUnlessDryOrUnprepared ==
    cfg.specific_key # None =>
        /\ complete_strings = {} /\ incomplete_strings = {}
        /\ Range(dispatch_log) \subseteq {cfg.specific_key}
        /\ Range(keys_to_translate) \subseteq {cfg.specific_key}
        /\ SpecificRunOver =>
               dispatch_log = IF BeforeDispatch(cfg.specific_key) = "call"
                              THEN <<cfg.specific_key>> ELSE <<>>

\* A run that writes nothing has targeted k1, which every target locale
\* already holds, and has dispatched it.
C36_Witness ==
    /\ pc = "done"
    /\ cfg.specific_key = "k1"
    /\ ~cfg.dry_run /\ ~cfg.save_output
    /\ "k1" \in CompleteStrings(files, cfg.target_languages, metadata)
    /\ dispatch_log = <<"k1">>

\* ------------------------------------------------------------------------
\* C37  the three sets of a finished run over all documented keys
\* ------------------------------------------------------------------------

\* all_translations, failed_keys and skipped_keys of translate_all.
TranslatedKeys == DOMAIN all_translations
FailedKeys == Range(failed_keys)
SkippedKeys == complete_strings

\* A run over all documented keys has reached its end.
AllKeysRunDone == pc = "done" /\ cfg.specific_key = None

\* C37: when a run over all documented keys is done, every documented key
\* is translated, failed or skipped, no key is in two of the three sets, no
\* key is on the failure list twice, and the sets hold documented keys only.
C37_DoneRunPartitionsDocumentedKeys ==
    AllKeysRunDone =>
        /\ TranslatedKeys \cup FailedKeys \cup SkippedKeys = DOMAIN metadata
        /\ TranslatedKeys \cap FailedKeys = {}
        /\ TranslatedKeys \cap SkippedKeys = {}
        /\ FailedKeys \cap SkippedKeys = {}
        /\ Len(failed_keys) = Cardinality(FailedKeys)

\* A resumed run is done with a key in each of the three sets.
C37_Witness ==
    /\ AllKeysRunDone
    /\ TranslatedKeys # {} /\ FailedKeys # {} /\ SkippedKeys # {}
    /\ TranslatedKeys \cup FailedKeys \cup SkippedKeys = DOMAIN metadata

\* ------------------------------------------------------------------------
\* C38  documented_strings after a rewrite of the index
\* ------------------------------------------------------------------------

\* The number of keys listed over all category key lists of an index.
ListedKeys(ix) ==
    Sum([i \in 1..Len(ix.categories) |-> Len(ix.categories[i].keys)],
        1..Len(ix.categories))

\* C38: every step that rewrites the index (save, removal of orphans,
\* update_index) leaves documented_strings equal to the number of keys the
\* category key lists of the index hold.
C38_DocumentedStringsCountsListedKeys ==
    [][index' # index => index'.documented_strings = ListedKeys(index')]_vars

\* ------------------------------------------------------------------------
\* C39  save_defaults, then the next load of the defaults
\* ------------------------------------------------------------------------

\* C39: right after save_defaults(d), d a defaults record, the cache of the
\* instance is empty and the defaults its next _load_defaults returns, which
\* the reads merge against, are d.
C39_SavedDefaultsAreLoadedBack ==
    (returned.call = "save_defaults" /\ returned.arg \in DefaultsRecords) =>
        /\ ~io.defaults.loaded
        /\ DefaultsOf(io) = returned.arg

====
